---- MODULE Spec2Model ----
(***************************************************************************)
(* A model of aster's concurrent directory scanner                         *)
(* (internal/scanner/scanner.go, internal/scanner/node.go).                *)
(*                                                                         *)
(* One goroutine runs scanDir per directory.  A goroutine is modelled by   *)
(* its program counter pc[d]; each action below is one atomic step of the  *)
(* source (a channel operation, an atomic add, a WaitGroup operation, a    *)
(* system call together with the thread-local bookkeeping around it).      *)
(* The file system is chosen in Init and does not change during the scan.  *)
(*                                                                         *)
(* The second part models the terminal UI's Model (internal/ui/model.go,   *)
(* internal/ui/update.go): one action per message that Update handles.     *)
(* It starts where startScan has finished and its scanDoneMsg is in        *)
(* flight, and browses (and trashes from) the tree the scan built.         *)
(*                                                                         *)
(* The third part is the view's scrollWindow (internal/ui/view.go), a pure *)
(* function, with the calls of it on bounded arguments.  The view's        *)
(* truncate and Scan's sizing of its semaphore are modelled the same way.  *)
(*                                                                         *)
(* BatchSpec is the scan with processBatch's chunk goroutines in place of  *)
(* the one sequential pass over a batch; StartSpec is the scan as          *)
(* startScan (internal/ui/model.go) runs it, with the closing and the      *)
(* draining of the progress channel that follow it.                        *)
(***************************************************************************)
EXTENDS Integers, Sequences, FiniteSets, TLC

(* ------------------------------ bounds -------------------------------- *)

\* directory entries below the root (node ids 1..MaxEntries)
MaxEntries == 3
\* sizes reported by entry.Info() range over 0..MaxFileSize
MaxFileSize == 1
\* the semaphore capacity ranges over 1..MaxSemCap (the source's 256+ scaled down)
MaxSemCap == 2
\* the progress channel's capacity ranges over 1..MaxProgCap
MaxProgCap == 2
\* failing system calls (open, ReadDir, Info, Close) per scan
MaxFaults == 1
\* entries per f.ReadDir call (the source's 1024 scaled down)
readDirBatchSize == 2
\* the Model's sort generation ranges over 1..MaxSortGen
MaxSortGen == 3
\* scrollWindow's cursor and total range over 0..MaxTotal
MaxTotal == 6
\* scrollWindow's height ranges over 0..MaxHeight
MaxHeight == 7
\* truncate's string has up to MaxStrLen bytes
MaxStrLen == 4
\* truncate's maxLen ranges over -1..MaxTruncLen
MaxTruncLen == 5
\* runtime.NumCPU() ranges over 1..MaxCPU
MaxCPU == 64
\* the chunk goroutines of a batch that is fanned out (the source's 8 scaled
\* down)
numChunks == 2
\* the entries from which a batch is fanned out (the source's 32 scaled down)
minFanOut == 2

(* ------------------------------ constants ----------------------------- *)

\* the id of the root node
Root == 0
\* a nil *Node
NoNode == Root - 1

Ids == Root..MaxEntries

EntryKinds == {"dir", "file", "symlink"}

(* ------------------------------ state --------------------------------- *)

VARIABLES
    \* the environment
    fsys,        \* fsys[i] = [kind, parent, size]: what Lstat/ReadDir/Info report
    ctxErr,      \* ctx.Err() != nil
    faults,      \* how many more system calls may fail
    \* Scan
    scanPc,      \* "init", "waiting" (in globalWg.Wait), "returned"
    result,      \* Scan's return values [node, err]
    semCap,      \* cap(sem)
    sem,         \* len(sem): slots taken
    globalWg,    \* globalWg's counter
    \* the progress sink
    chNil,       \* progressCh == nil
    chCap,       \* cap(progressCh)
    progressCh,  \* the values buffered in progressCh
    received,    \* the sum of the values the consumer has received
    dropped,     \* the number of sends that took the default branch
    \* the tree (Node fields)
    nodes,       \* the nodes allocated so far
    IsDir, size, Children, Err, Parent,
    \* the scanDir goroutine of each directory node
    pc,          \* its position
    localWg,     \* localChildrenWg's counter
    readPos,     \* how many entries f.ReadDir has returned so far
    entries,     \* the batch being processed
    idx,         \* j, the index into entries of the chunk goroutine
    totalSize    \* totalSize of the batch being processed

VARIABLES
    \* the UI's Model
    state,       \* "Scanning", "Browsing", "ConfirmDelete", "Error"
    root,        \* m.root, NoNode while nil
    stack,       \* the breadcrumb stack of directory nodes
    cursor, sort, sortGen,
    scanErr,     \* m.scanErr != nil
    confirmPath, \* the node whose path is in m.confirmPath, NoNode for ""
    quit,        \* Update has returned tea.Quit
    scanMsg,     \* startScan's scanDoneMsg: "none", "inFlight", "delivered"
    trashed,     \* the nodes whose files trashItem has moved to the Trash
    hookErr,     \* what the hook called by the last Update returned: "nil",
                 \* "error", or "none" when it called no hook
    hookCall,    \* that call, [hook, path], NoCall when it called no hook
    \* Node fields the UI uses
    nodeSortGen, \* Node.sortGen
    SortedMode

VARIABLES
    \* a call of the view's scrollWindow
    scrollArgs,  \* <<cursor, total, height>>, <<>> when there is no call
    scrollRet,   \* <<start, end>> once it has returned, <<>> before
    \* a call of the view's truncate
    truncArgs,   \* <<s, maxLen>>, s a sequence of bytes, <<>> when there is no call
    truncRet     \* <<the string returned>> once it has returned, <<>> before

VARIABLES
    \* Scan's sizing of its semaphore
    numCPU,      \* runtime.NumCPU(), 0 when there is no call
    numWorkers,  \* numWorkers once computed, 0 before
    \* processBatch's chunk goroutines: chunks[d][k] = [j, e, localSize, pc]
    \* is the k-th goroutine of d's batch, chunks[d] = <<>> when there is none
    chunks,
    \* startScan
    chClosed,    \* close(progressCh) has run
    drainDone    \* the drain goroutine has closed drainDone

envVars  == <<fsys, ctxErr, faults>>
scanVars == <<scanPc, result, semCap, sem, globalWg>>
sinkVars == <<chNil, chCap, progressCh, received, dropped>>
treeVars == <<nodes, IsDir, size, Children, Err, Parent>>
taskVars == <<pc, localWg, readPos, entries, idx, totalSize>>
modelVars == <<state, root, stack, cursor, sort, sortGen, scanErr,
               confirmPath, quit, scanMsg, trashed, hookErr, hookCall>>
sortVars  == <<nodeSortGen, SortedMode>>
viewVars  == <<scrollArgs, scrollRet, truncArgs, truncRet>>
poolVars  == <<numCPU, numWorkers, chunks>>
startVars == <<chClosed, drainDone>>
vars     == <<envVars, scanVars, sinkVars, treeVars, taskVars, modelVars,
              sortVars, viewVars, poolVars, startVars>>

\* no hook was called
NoCall == [hook |-> "none", path |-> NoNode]

(* ------------------------------ helpers ------------------------------- *)

\* the ids of a set, in ascending order
RECURSIVE Ascending(_)
Ascending(S) ==
    IF S = {} THEN <<>>
    ELSE LET m == CHOOSE x \in S : \A y \in S : x <= y
         IN  <<m>> \o Ascending(S \ {m})

Range(s) == {s[i] : i \in 1..Len(s)}

Min(a, b) == IF a < b THEN a ELSE b

\* the entries of directory d, in the order ReadDir reports them
DirEntries(d) ==
    Ascending({i \in DOMAIN fsys : i # Root /\ fsys[i].parent = d})

\* the file systems of at most MaxEntries entries: every entry lies in a
\* directory created before it; only files and symlinks report a size
WellFormed(f) ==
    /\ f[Root].parent = NoNode
    /\ f[Root].kind = "dir" => f[Root].size = 0
    /\ f[Root].kind = "symlink" => f[Root].size > 0
    /\ \A i \in DOMAIN f \ {Root} :
        /\ f[i].parent < i
        /\ f[f[i].parent].kind = "dir"
        /\ f[i].kind = "dir" => f[i].size = 0
        /\ f[i].kind = "symlink" => f[i].size = 1

RootRecs ==
    [kind : EntryKinds, parent : {NoNode}, size : 0..MaxFileSize]

EntryRecs(n) ==
    [kind : EntryKinds, parent : Root..(n - 1), size : 0..MaxFileSize]

RECURSIVE FileSystemsOf(_)
FileSystemsOf(n) ==
    IF n = 0
    THEN {f \in [{Root} -> RootRecs] : WellFormed(f)}
    ELSE {f \in UNION {{g @@ (n :> e) : e \in EntryRecs(n)}
                          : g \in FileSystemsOf(n - 1)} : WellFormed(f)}

FileSystems == UNION {FileSystemsOf(n) : n \in 0..MaxEntries}

\* the sum of a sequence of numbers
RECURSIVE SumSeq(_)
SumSeq(s) == IF s = <<>> THEN 0 ELSE Head(s) + SumSeq(Tail(s))

\* the bytes of the files below entry i of the file system; a symlink counts
\* for nothing
RECURSIVE TrueSize(_)
TrueSize(i) ==
    IF fsys[i].kind = "file" THEN fsys[i].size
    ELSE IF fsys[i].kind = "symlink" THEN 0
    ELSE SumSeq([k \in 1..Len(DirEntries(i)) |-> TrueSize(DirEntries(i)[k])])

(* ------------------------------ Init ---------------------------------- *)

\* New that leaves sortGen at its zero value
NewGenZero ==
    /\ state = "Scanning"
    /\ root = NoNode
    /\ stack = <<>>
    /\ cursor = 0
    /\ sort = "SortBySize"
    /\ sortGen = 0
    /\ scanErr = FALSE
    /\ confirmPath = NoNode
    /\ quit = FALSE

\* New(rootPath): the Model before any message
New ==
    /\ state = "Scanning"
    /\ root = NoNode
    /\ stack = <<>>
    /\ cursor = 0
    /\ sort = "SortBySize"
    /\ sortGen = 1
    /\ scanErr = FALSE
    /\ confirmPath = NoNode
    /\ quit = FALSE

Init ==
    /\ fsys \in FileSystems
    /\ ctxErr = FALSE
    /\ faults = MaxFaults
    /\ scanPc = "init"
    /\ result = [node |-> NoNode, err |-> FALSE]
    /\ semCap \in 1..MaxSemCap
    /\ sem = 0
    /\ globalWg = 0
    /\ chNil \in BOOLEAN
    /\ chCap \in IF chNil THEN {0} ELSE 1..MaxProgCap
    /\ progressCh = <<>>
    /\ received = 0
    /\ dropped = 0
    /\ nodes = {}
    /\ IsDir = [i \in Ids |-> FALSE]
    /\ size = [i \in Ids |-> 0]
    /\ Children = [i \in Ids |-> <<>>]
    /\ Err = [i \in Ids |-> FALSE]
    /\ Parent = [i \in Ids |-> NoNode]
    /\ pc = [i \in Ids |-> "idle"]
    /\ localWg = [i \in Ids |-> 0]
    /\ readPos = [i \in Ids |-> 0]
    /\ entries = [i \in Ids |-> <<>>]
    /\ idx = [i \in Ids |-> 0]
    /\ totalSize = [i \in Ids |-> 0]
    /\ New
    /\ scanMsg = "none"
    /\ trashed = {}
    /\ hookErr = "none"
    /\ hookCall = NoCall
    /\ scrollArgs = <<>> /\ scrollRet = <<>>
    /\ truncArgs = <<>> /\ truncRet = <<>>
    /\ numCPU = 0 /\ numWorkers = 0
    /\ chunks = [i \in Ids |-> <<>>]
    /\ chClosed = FALSE /\ drainDone = FALSE
    /\ nodeSortGen = [i \in Ids |-> 0]
    /\ SortedMode = [i \in Ids |-> "SortBySize"]

(* ------------------------------ the environment ------------------------ *)

\* the caller cancels ctx at any moment up to Scan's return
Cancel ==
    /\ scanPc # "returned"
    /\ ~ctxErr
    /\ ctxErr' = TRUE
    /\ UNCHANGED <<fsys, faults, scanVars, sinkVars, treeVars, taskVars>>

\* the consumer receives one buffered value
Drain ==
    /\ progressCh # <<>>
    /\ received' = received + Head(progressCh)
    /\ progressCh' = Tail(progressCh)
    /\ UNCHANGED <<chNil, chCap, dropped, envVars, scanVars, treeVars, taskVars>>

(* ------------------------------ sendProgress --------------------------- *)

\* sendProgress with the room test off by one
sendProgressOffByOne(sz) ==
    IF chNil \/ sz = 0 \/ ctxErr
    THEN UNCHANGED sinkVars
    ELSE \/ /\ Len(progressCh) + 1 < chCap
            /\ progressCh' = Append(progressCh, sz)
            /\ UNCHANGED <<chNil, chCap, received, dropped>>
         \/ /\ Len(progressCh) + 1 >= chCap
            /\ dropped' = dropped + 1
            /\ UNCHANGED <<chNil, chCap, progressCh, received>>

\* sendProgress that also sends a size of zero
sendProgressZero(sz) ==
    IF chNil \/ ctxErr
    THEN UNCHANGED sinkVars
    ELSE \/ /\ Len(progressCh) < chCap
            /\ progressCh' = Append(progressCh, sz)
            /\ UNCHANGED <<chNil, chCap, received, dropped>>
         \/ /\ Len(progressCh) >= chCap
            /\ dropped' = dropped + 1
            /\ UNCHANGED <<chNil, chCap, progressCh, received>>

\* sendProgress(ctx, ch, sz): a select with a default branch.  The send
\* succeeds when the buffer has room; otherwise it is dropped.  (Every caller
\* in the repository passes nil or a buffered channel.)
sendProgress(sz) ==
    IF chNil \/ sz = 0 \/ ctxErr
    THEN UNCHANGED sinkVars
    ELSE \/ /\ Len(progressCh) < chCap
            /\ progressCh' = Append(progressCh, sz)
            /\ UNCHANGED <<chNil, chCap, received, dropped>>
         \/ /\ Len(progressCh) >= chCap
            /\ dropped' = dropped + 1
            /\ UNCHANGED <<chNil, chCap, progressCh, received>>

(* ------------------------------ Scan ----------------------------------- *)

\* ScanStart that returns the root node along with Lstat's error
ScanStartKeepRoot ==
    /\ scanPc = "init"
    /\ \/ \* os.Lstat fails
          /\ faults > 0
          /\ faults' = faults - 1
          /\ scanPc' = "returned"
          /\ nodes' = {Root}
          /\ result' = [node |-> Root, err |-> TRUE]
          /\ UNCHANGED <<fsys, ctxErr, semCap, sem, globalWg, sinkVars,
                         IsDir, size, Children, Err, Parent, taskVars>>
       \/ \* the root is a file or a symlink
          /\ fsys[Root].kind # "dir"
          /\ nodes' = {Root}
          /\ size' = [size EXCEPT ![Root] = fsys[Root].size]
          /\ sendProgress(fsys[Root].size)
          /\ scanPc' = "returned"
          /\ result' = [node |-> Root, err |-> FALSE]
          /\ UNCHANGED <<envVars, semCap, sem, globalWg, IsDir, Children, Err,
                         Parent, taskVars>>
       \/ \* the root is a directory
          /\ fsys[Root].kind = "dir"
          /\ nodes' = {Root}
          /\ IsDir' = [IsDir EXCEPT ![Root] = TRUE]
          /\ globalWg' = globalWg + 1
          /\ pc' = [pc EXCEPT ![Root] = "start"]
          /\ scanPc' = "waiting"
          /\ UNCHANGED <<envVars, result, semCap, sem, sinkVars, size, Children,
                         Err, Parent, localWg, readPos, entries, idx, totalSize>>

\* Scan up to globalWg.Wait(): Lstat, the root node, the non-directory
\* early return, the semaphore, the root goroutine
ScanStart ==
    /\ scanPc = "init"
    /\ \/ \* os.Lstat fails
          /\ faults > 0
          /\ faults' = faults - 1
          /\ scanPc' = "returned"
          /\ result' = [node |-> NoNode, err |-> TRUE]
          /\ UNCHANGED <<fsys, ctxErr, semCap, sem, globalWg, sinkVars,
                         treeVars, taskVars>>
       \/ \* the root is a file or a symlink
          /\ fsys[Root].kind # "dir"
          /\ nodes' = {Root}
          /\ size' = [size EXCEPT ![Root] = fsys[Root].size]
          /\ sendProgress(fsys[Root].size)
          /\ scanPc' = "returned"
          /\ result' = [node |-> Root, err |-> FALSE]
          /\ UNCHANGED <<envVars, semCap, sem, globalWg, IsDir, Children, Err,
                         Parent, taskVars>>
       \/ \* the root is a directory
          /\ fsys[Root].kind = "dir"
          /\ nodes' = {Root}
          /\ IsDir' = [IsDir EXCEPT ![Root] = TRUE]
          /\ globalWg' = globalWg + 1
          /\ pc' = [pc EXCEPT ![Root] = "start"]
          /\ scanPc' = "waiting"
          /\ UNCHANGED <<envVars, result, semCap, sem, sinkVars, size, Children,
                         Err, Parent, localWg, readPos, entries, idx, totalSize>>

\* globalWg.Wait() returns; Scan returns the root
ScanReturn ==
    /\ scanPc = "waiting"
    /\ globalWg = 0
    /\ scanPc' = "returned"
    /\ result' = [node |-> Root, err |-> FALSE]
    /\ UNCHANGED <<envVars, semCap, sem, globalWg, sinkVars, treeVars, taskVars>>

(* ------------------------------ scanDir -------------------------------- *)

\* the positions at which a scanDir goroutine holds a semaphore slot
Holding == {"open", "read", "chunk", "send", "close"}

\* if ctx.Err() != nil { return }
\* scanDir that frees a slot when it returns on a cancelled ctx
scanDirStartRelease(d) ==
    /\ pc[d] = "start"
    /\ pc' = [pc EXCEPT ![d] = IF ctxErr THEN "wait" ELSE "acquire"]
    /\ sem' = IF ctxErr /\ sem > 0 THEN sem - 1 ELSE sem
    /\ UNCHANGED <<envVars, scanPc, result, semCap, globalWg, sinkVars, treeVars,
                   localWg, readPos, entries, idx, totalSize>>

\* scanDir that does not look at ctx before it takes a slot
scanDirStartUnchecked(d) ==
    /\ pc[d] = "start"
    /\ pc' = [pc EXCEPT ![d] = "acquire"]
    /\ UNCHANGED <<envVars, scanVars, sinkVars, treeVars, localWg, readPos,
                   entries, idx, totalSize>>

scanDirStart(d) ==
    /\ pc[d] = "start"
    /\ pc' = [pc EXCEPT ![d] = IF ctxErr THEN "wait" ELSE "acquire"]
    /\ UNCHANGED <<envVars, scanVars, sinkVars, treeVars, localWg, readPos,
                   entries, idx, totalSize>>

\* Acquire with a semaphore that never fills
AcquireUnbounded(d) ==
    /\ pc[d] = "acquire"
    /\ sem' = sem + 1
    /\ pc' = [pc EXCEPT ![d] = "open"]
    /\ UNCHANGED <<envVars, scanPc, result, semCap, globalWg, sinkVars,
                   treeVars, localWg, readPos, entries, idx, totalSize>>

\* sem <- struct{}{}
Acquire(d) ==
    /\ pc[d] = "acquire"
    /\ sem < semCap
    /\ sem' = sem + 1
    /\ pc' = [pc EXCEPT ![d] = "open"]
    /\ UNCHANGED <<envVars, scanPc, result, semCap, globalWg, sinkVars,
                   treeVars, localWg, readPos, entries, idx, totalSize>>

\* OpenDir that keeps the slot when os.Open fails
OpenDirLeak(d) ==
    /\ pc[d] = "open"
    /\ \/ /\ pc' = [pc EXCEPT ![d] = "read"]
          /\ UNCHANGED <<faults, sem, Err>>
       \/ /\ faults > 0
          /\ faults' = faults - 1
          /\ sem' = sem
          /\ Err' = [Err EXCEPT ![d] = TRUE]
          /\ pc' = [pc EXCEPT ![d] = "wait"]
    /\ UNCHANGED <<fsys, ctxErr, scanPc, result, semCap, globalWg, sinkVars,
                   nodes, IsDir, size, Children, Parent, localWg, readPos,
                   entries, idx, totalSize>>

\* OpenDir that stores the error of os.Open on the parent's node
OpenDirOnParent(d) ==
    /\ pc[d] = "open"
    /\ \/ /\ pc' = [pc EXCEPT ![d] = "read"]
          /\ UNCHANGED <<faults, sem, Err>>
       \/ /\ faults > 0
          /\ faults' = faults - 1
          /\ sem' = sem - 1
          /\ Err' = [Err EXCEPT ![IF d = Root THEN d ELSE Parent[d]] = TRUE]
          /\ pc' = [pc EXCEPT ![d] = "wait"]
    /\ UNCHANGED <<fsys, ctxErr, scanPc, result, semCap, globalWg, sinkVars,
                   nodes, IsDir, size, Children, Parent, localWg, readPos,
                   entries, idx, totalSize>>

\* os.Open(currentPath); on failure the slot is released and the error kept
OpenDir(d) ==
    /\ pc[d] = "open"
    /\ \/ /\ pc' = [pc EXCEPT ![d] = "read"]
          /\ UNCHANGED <<faults, sem, Err>>
       \/ /\ faults > 0
          /\ faults' = faults - 1
          /\ sem' = sem - 1
          /\ Err' = [Err EXCEPT ![d] = TRUE]
          /\ pc' = [pc EXCEPT ![d] = "wait"]
    /\ UNCHANGED <<fsys, ctxErr, scanPc, result, semCap, globalWg, sinkVars,
                   nodes, IsDir, size, Children, Parent, localWg, readPos,
                   entries, idx, totalSize>>

\* IsDir of the node made for entry e: entry.IsDir(), false for a symlink
childIsDir(e) ==
    IF fsys[e].kind = "symlink" THEN FALSE ELSE fsys[e].kind = "dir"

\* the loop head of scanDir, f.ReadDir, and processBatch up to the point
\* where the batch's nodes have been appended to node.Children
\* ReadDir whose new nodes all get the root as their parent
ReadDirFlat(d) ==
    /\ pc[d] = "read"
    /\ LET all  == DirEntries(d)
           last == Min(Len(all), readPos[d] + readDirBatchSize)
           got  == SubSeq(all, readPos[d] + 1, last)
       IN  \/ \* ctx.Err() != nil, or io.EOF
              /\ ctxErr \/ got = <<>>
              /\ pc' = [pc EXCEPT ![d] = "close"]
              /\ UNCHANGED <<faults, treeVars, readPos, entries>>
           \/ \* f.ReadDir fails
              /\ ~ctxErr
              /\ faults > 0
              /\ faults' = faults - 1
              /\ Err' = [Err EXCEPT ![d] = TRUE]
              /\ pc' = [pc EXCEPT ![d] = "close"]
              /\ UNCHANGED <<nodes, IsDir, size, Children, Parent, readPos,
                             entries>>
           \/ \* a batch of entries
              /\ ~ctxErr
              /\ got # <<>>
              /\ readPos' = [readPos EXCEPT ![d] = last]
              /\ entries' = [entries EXCEPT ![d] = got]
              /\ nodes' = nodes \cup Range(got)
              /\ IsDir' = [i \in Ids |->
                              IF i \in Range(got) THEN childIsDir(i) ELSE IsDir[i]]
              /\ Parent' = [i \in Ids |->
                              IF i \in Range(got) THEN Root ELSE Parent[i]]
              /\ Children' = [Children EXCEPT ![d] = @ \o got]
              /\ pc' = [pc EXCEPT ![d] = "chunk"]
              /\ UNCHANGED <<faults, size, Err>>
    /\ UNCHANGED <<fsys, ctxErr, scanVars, sinkVars, localWg, idx, totalSize>>

ReadDir(d) ==
    /\ pc[d] = "read"
    /\ LET all  == DirEntries(d)
           last == Min(Len(all), readPos[d] + readDirBatchSize)
           got  == SubSeq(all, readPos[d] + 1, last)
       IN  \/ \* ctx.Err() != nil, or io.EOF
              /\ ctxErr \/ got = <<>>
              /\ pc' = [pc EXCEPT ![d] = "close"]
              /\ UNCHANGED <<faults, treeVars, readPos, entries>>
           \/ \* f.ReadDir fails
              /\ ~ctxErr
              /\ faults > 0
              /\ faults' = faults - 1
              /\ Err' = [Err EXCEPT ![d] = TRUE]
              /\ pc' = [pc EXCEPT ![d] = "close"]
              /\ UNCHANGED <<nodes, IsDir, size, Children, Parent, readPos,
                             entries>>
           \/ \* a batch of entries
              /\ ~ctxErr
              /\ got # <<>>
              /\ readPos' = [readPos EXCEPT ![d] = last]
              /\ entries' = [entries EXCEPT ![d] = got]
              /\ nodes' = nodes \cup Range(got)
              /\ IsDir' = [i \in Ids |->
                              IF i \in Range(got) THEN childIsDir(i) ELSE IsDir[i]]
              /\ Parent' = [i \in Ids |->
                              IF i \in Range(got) THEN d ELSE Parent[i]]
              /\ Children' = [Children EXCEPT ![d] = @ \o got]
              /\ pc' = [pc EXCEPT ![d] = "chunk"]
              /\ UNCHANGED <<faults, size, Err>>
    /\ UNCHANGED <<fsys, ctxErr, scanVars, sinkVars, localWg, idx, totalSize>>

\* entryAction without the symlink test
entryActionFollow(e) ==
    IF fsys[e].kind = "dir" THEN "spawn" ELSE "stat"

\* what the chunk goroutine does with entry e: a symlink is skipped, a
\* directory gets a goroutine, anything else is stat'ed
entryAction(e) ==
    IF fsys[e].kind = "symlink" THEN "skip"
    ELSE IF fsys[e].kind = "dir" THEN "spawn"
    ELSE "stat"

\* spawnScanDir without globalWg.Add(1)
spawnScanDirNoGlobal(d, child) ==
    /\ localWg' = [localWg EXCEPT ![d] = @ + 1]
    /\ globalWg' = globalWg
    /\ pc' = [pc EXCEPT ![child] = "start"]

\* localChildrenWg.Add(1); globalWg.Add(1); go scanDir(ctx, child, ...)
spawnScanDir(d, child) ==
    /\ localWg' = [localWg EXCEPT ![d] = @ + 1]
    /\ globalWg' = globalWg + 1
    /\ pc' = [pc EXCEPT ![child] = "start"]

\* one iteration of the chunk goroutine's loop over the batch
ChunkEntry(d) ==
    /\ pc[d] = "chunk"
    /\ idx[d] < Len(entries[d])
    /\ idx' = [idx EXCEPT ![d] = @ + 1]
    /\ LET e == entries[d][idx[d] + 1]
       IN  \/ /\ entryAction(e) = "skip"
              /\ UNCHANGED <<faults, globalWg, size, pc, localWg, totalSize>>
           \/ /\ entryAction(e) = "spawn"
              /\ spawnScanDir(d, e)
              /\ UNCHANGED <<faults, size, totalSize>>
           \/ \* entry.Info() succeeds
              /\ entryAction(e) = "stat"
              /\ size' = [size EXCEPT ![e] = fsys[e].size]
              /\ totalSize' = [totalSize EXCEPT ![d] = @ + fsys[e].size]
              /\ UNCHANGED <<faults, globalWg, pc, localWg>>
           \/ \* entry.Info() fails
              /\ entryAction(e) = "stat"
              /\ faults > 0
              /\ faults' = faults - 1
              /\ UNCHANGED <<globalWg, size, pc, localWg, totalSize>>
    /\ UNCHANGED <<fsys, ctxErr, scanPc, result, semCap, sem, sinkVars, nodes,
                   IsDir, Children, Err, Parent, readPos, entries>>

\* Aggregate that leaves processBatch before AddSize once ctx is cancelled
AggregateUnlessCancelled(d) ==
    /\ pc[d] = "chunk"
    /\ idx[d] = Len(entries[d])
    /\ IF totalSize[d] > 0 /\ ~ctxErr
       THEN /\ size' = [size EXCEPT ![d] = @ + totalSize[d]]
            /\ pc' = [pc EXCEPT ![d] = "send"]
            /\ UNCHANGED <<entries, idx, totalSize>>
       ELSE /\ pc' = [pc EXCEPT ![d] = "read"]
            /\ entries' = [entries EXCEPT ![d] = <<>>]
            /\ idx' = [idx EXCEPT ![d] = 0]
            /\ totalSize' = [totalSize EXCEPT ![d] = 0]
            /\ UNCHANGED size
    /\ UNCHANGED <<envVars, scanVars, sinkVars, nodes, IsDir, Children, Err,
                   Parent, localWg, readPos>>

\* wg.Wait() returns; node.AddSize(batchFilesSize) when it is positive
Aggregate(d) ==
    /\ pc[d] = "chunk"
    /\ idx[d] = Len(entries[d])
    /\ IF totalSize[d] > 0
       THEN /\ size' = [size EXCEPT ![d] = @ + totalSize[d]]
            /\ pc' = [pc EXCEPT ![d] = "send"]
            /\ UNCHANGED <<entries, idx, totalSize>>
       ELSE /\ pc' = [pc EXCEPT ![d] = "read"]
            /\ entries' = [entries EXCEPT ![d] = <<>>]
            /\ idx' = [idx EXCEPT ![d] = 0]
            /\ UNCHANGED <<size, totalSize>>
    /\ UNCHANGED <<envVars, scanVars, sinkVars, nodes, IsDir, Children, Err,
                   Parent, localWg, readPos>>

\* EmitProgress with a plain channel send, which waits for room
EmitProgressBlocking(d) ==
    /\ pc[d] = "send"
    /\ (~chNil /\ ~ctxErr) => Len(progressCh) < chCap
    /\ sendProgress(totalSize[d])
    /\ pc' = [pc EXCEPT ![d] = "read"]
    /\ entries' = [entries EXCEPT ![d] = <<>>]
    /\ idx' = [idx EXCEPT ![d] = 0]
    /\ totalSize' = [totalSize EXCEPT ![d] = 0]
    /\ UNCHANGED <<envVars, scanVars, treeVars, localWg, readPos>>

\* sendProgress(ctx, progressCh, batchFilesSize); processBatch returns
EmitProgress(d) ==
    /\ pc[d] = "send"
    /\ sendProgress(totalSize[d])
    /\ pc' = [pc EXCEPT ![d] = "read"]
    /\ entries' = [entries EXCEPT ![d] = <<>>]
    /\ idx' = [idx EXCEPT ![d] = 0]
    /\ totalSize' = [totalSize EXCEPT ![d] = 0]
    /\ UNCHANGED <<envVars, scanVars, treeVars, localWg, readPos>>

\* f.Close(), whose error is kept when the node has none; <-sem
\* scanDir that goes on to wait for its children without freeing its slot
CloseDirHold(d) ==
    /\ pc[d] = "close"
    /\ \/ UNCHANGED <<faults, Err>>
       \/ /\ faults > 0
          /\ faults' = faults - 1
          /\ Err' = [Err EXCEPT ![d] = TRUE]
    /\ sem' = sem
    /\ pc' = [pc EXCEPT ![d] = "wait"]
    /\ UNCHANGED <<fsys, ctxErr, scanPc, result, semCap, globalWg, sinkVars,
                   nodes, IsDir, size, Children, Parent, localWg, readPos,
                   entries, idx, totalSize>>

CloseDir(d) ==
    /\ pc[d] = "close"
    /\ \/ UNCHANGED <<faults, Err>>
       \/ /\ faults > 0
          /\ faults' = faults - 1
          /\ Err' = [Err EXCEPT ![d] = TRUE]
    /\ sem' = sem - 1
    /\ pc' = [pc EXCEPT ![d] = "wait"]
    /\ UNCHANGED <<fsys, ctxErr, scanPc, result, semCap, globalWg, sinkVars,
                   nodes, IsDir, size, Children, Parent, localWg, readPos,
                   entries, idx, totalSize>>

\* WaitChildren that does not wait
WaitChildrenSkipped(d) ==
    /\ pc[d] = "wait"
    /\ pc' = [pc EXCEPT ![d] = "addParent"]
    /\ UNCHANGED <<envVars, scanVars, sinkVars, treeVars, localWg, readPos,
                   entries, idx, totalSize>>

\* the deferred function: localChildrenWg.Wait()
WaitChildren(d) ==
    /\ pc[d] = "wait"
    /\ localWg[d] = 0
    /\ pc' = [pc EXCEPT ![d] = "addParent"]
    /\ UNCHANGED <<envVars, scanVars, sinkVars, treeVars, localWg, readPos,
                   entries, idx, totalSize>>

\* AddToParent that adds to the node itself
AddToParentSelf(d) ==
    /\ pc[d] = "addParent"
    /\ size' = IF Parent[d] # NoNode
               THEN [size EXCEPT ![d] = @ + size[d]]
               ELSE size
    /\ pc' = [pc EXCEPT ![d] = "parentDone"]
    /\ UNCHANGED <<envVars, scanVars, sinkVars, nodes, IsDir, Children, Err,
                   Parent, localWg, readPos, entries, idx, totalSize>>

\* if node.Parent != nil { node.Parent.AddSize(node.Size()) }
AddToParent(d) ==
    /\ pc[d] = "addParent"
    /\ size' = IF Parent[d] # NoNode
               THEN [size EXCEPT ![Parent[d]] = @ + size[d]]
               ELSE size
    /\ pc' = [pc EXCEPT ![d] = "parentDone"]
    /\ UNCHANGED <<envVars, scanVars, sinkVars, nodes, IsDir, Children, Err,
                   Parent, localWg, readPos, entries, idx, totalSize>>

\* if parentWg != nil { parentWg.Done() }
ParentDone(d) ==
    /\ pc[d] = "parentDone"
    /\ localWg' = IF d # Root
                  THEN [localWg EXCEPT ![Parent[d]] = @ - 1]
                  ELSE localWg
    /\ pc' = [pc EXCEPT ![d] = "globalDone"]
    /\ UNCHANGED <<envVars, scanVars, sinkVars, treeVars, readPos, entries,
                   idx, totalSize>>

\* globalWg.Done(); the goroutine ends
GlobalDone(d) ==
    /\ pc[d] = "globalDone"
    /\ globalWg' = globalWg - 1
    /\ pc' = [pc EXCEPT ![d] = "done"]
    /\ UNCHANGED <<envVars, scanPc, result, semCap, sem, sinkVars, treeVars,
                   localWg, readPos, entries, idx, totalSize>>

scanDir(d) ==
    \/ scanDirStart(d)
    \/ Acquire(d)
    \/ OpenDir(d)
    \/ ReadDir(d)
    \/ ChunkEntry(d)
    \/ Aggregate(d)
    \/ EmitProgress(d)
    \/ CloseDir(d)
    \/ WaitChildren(d)
    \/ AddToParent(d)
    \/ ParentDone(d)
    \/ GlobalDone(d)

Scan == ScanStart \/ ScanReturn

(* ------------------------------ the UI's Model -------------------------- *)

SortModes == {"SortBySize", "SortByName"}

\* the key names handleKey tests for
QuitKeys    == {"ctrl+c", "q"}
UpKeys      == {"up", "k"}
DownKeys    == {"down", "j"}
RightKeys   == {"right", "enter", "l"}
LeftKeys    == {"left", "backspace", "h"}
ConfirmKeys == {"d", "y", "enter"}
CancelKeys  == {"esc", "n", "q"}
HomeKeys    == {"g", "home"}
EndKeys     == {"G", "end"}
\* the keys pressed: one name at least of every case of handleKey, every
\* name that has two meanings, and a key of no case
Keys ==
    {"ctrl+c", "q", "up", "down", "right", "enter", "left", "s", "o", "r",
     "d", "y", "esc", "n", "g", "G", "x"}

\* what the scanner and the file system hold while the UI runs
scannerVars == <<envVars, scanVars, sinkVars, taskVars, poolVars, startVars>>

\* the directory being browsed with breadcrumb stack stk
currentDirOf(stk) == IF stk = <<>> THEN root ELSE stk[Len(stk)]

currentDir == currentDirOf(stack)

\* n.IsSorted(m.sortGen, sortModeToInt8(m.sort))
IsSorted(n) == nodeSortGen[n] = sortGen /\ SortedMode[n] = sort

\* the orders of the nodes of s
Orders(s) ==
    {p \in [1..Len(s) -> Range(s)] : \A n \in Range(s) : \E i \in 1..Len(s) : p[i] = n}

\* the orders n.SortBySize() may leave: size descending, nodes of equal size
\* in any order (slices.SortFunc is not stable)
SortBySize(s) ==
    {p \in Orders(s) :
        \A i, j \in 1..Len(s) : i < j => size[p[i]] >= size[p[j]]}

\* the rank of node n's Name in alphabetical order: the names are distinct,
\* and ReadDir reports them in the reverse of that order
Name(n) == MaxEntries - n

\* the orders n.SortByName() may leave: name ascending
SortByName(s) ==
    {p \in Orders(s) :
        \A i, j \in 1..Len(s) : i < j => Name(p[i]) <= Name(p[j])}

\* sortNode that sorts by size whatever the mode
sortNodeBySize(s, mode) == SortBySize(s)

sortNode(s, mode) ==
    IF mode = "SortBySize" THEN SortBySize(s) ELSE SortByName(s)

\* what visibleChildren() may return for directory d with children kids:
\* they are sorted first unless d is marked sorted for (sortGen, sort)
visibleChildren(d, kids) ==
    IF d = NoNode THEN {<<>>}
    ELSE IF IsSorted(d) THEN {kids}
    ELSE sortNode(kids, sort)

\* visibleChildren()'s effect on the node: the order ch, and d.MarkSorted
MarkSorted(d, ch) ==
    IF d = NoNode
    THEN UNCHANGED <<Children, nodeSortGen, SortedMode>>
    ELSE /\ Children' = [Children EXCEPT ![d] = ch]
         /\ nodeSortGen' = [nodeSortGen EXCEPT ![d] = sortGen]
         /\ SortedMode' = [SortedMode EXCEPT ![d] = sort]

\* clampCursor() for a list of n children and cursor c
clampCursor(n, c) ==
    IF n = 0 THEN 0
    ELSE IF c >= n THEN n - 1
    ELSE IF c < 0 THEN 0
    ELSE c

\* selected() for the visible children ch, NoNode for nil
selected(ch) ==
    IF Len(ch) = 0 \/ cursor >= Len(ch) THEN NoNode ELSE ch[cursor + 1]

\* startScan has run Scan to its return, closed and drained the progress
\* channel, sorted the root's children by size and sent its scanDoneMsg,
\* which Update has not handled yet.  Scan failed in Lstat, or it scanned the
\* whole tree, one without symlinks below the root, without a failure.
NavInit ==
    /\ ctxErr = FALSE
    /\ scanPc = "returned"
    /\ result \in {[node |-> NoNode, err |-> TRUE], [node |-> Root, err |-> FALSE]}
    /\ fsys \in IF result.err THEN FileSystemsOf(0)
                ELSE {f \in FileSystems :
                         \A i \in DOMAIN f \ {Root} : f[i].kind # "symlink"}
    /\ faults = IF result.err THEN MaxFaults - 1 ELSE MaxFaults
    /\ semCap = 1 /\ sem = 0 /\ globalWg = 0
    /\ chNil = FALSE /\ chCap = 1 /\ progressCh = <<>> /\ dropped = 0
    /\ nodes = IF result.err THEN {} ELSE DOMAIN fsys
    /\ IsDir = [i \in Ids |-> i \in nodes /\ fsys[i].kind = "dir"]
    /\ size = [i \in Ids |->
                 IF i \notin nodes THEN 0
                 ELSE IF fsys[i].kind = "dir" THEN TrueSize(i)
                 ELSE IF fsys[i].kind = "file" \/ i = Root THEN fsys[i].size
                 ELSE 0]
    /\ received = IF result.err THEN 0 ELSE size[Root]
    /\ Parent = [i \in Ids |-> IF i \in nodes THEN fsys[i].parent ELSE NoNode]
    /\ Err = [i \in Ids |-> FALSE]
    /\ \E rootOrder \in IF result.err THEN {<<>>} ELSE SortBySize(DirEntries(Root)) :
          Children = [i \in Ids |->
                         IF i \notin nodes THEN <<>>
                         ELSE IF i = Root THEN rootOrder
                         ELSE DirEntries(i)]
    /\ pc = [i \in Ids |-> IF IsDir[i] THEN "done" ELSE "idle"]
    /\ localWg = [i \in Ids |-> 0]
    /\ readPos = [i \in Ids |-> Len(Children[i])]
    /\ entries = [i \in Ids |-> <<>>]
    /\ idx = [i \in Ids |-> 0]
    /\ totalSize = [i \in Ids |-> 0]
    /\ New
    /\ scanMsg = "inFlight"
    /\ trashed = {}
    /\ hookErr = "none"
    /\ hookCall = NoCall
    /\ scrollArgs = <<>> /\ scrollRet = <<>>
    /\ truncArgs = <<>> /\ truncRet = <<>>
    /\ numCPU = 0 /\ numWorkers = 0
    /\ chunks = [i \in Ids |-> <<>>]
    /\ chClosed = TRUE /\ drainDone = TRUE
    /\ nodeSortGen = [i \in Ids |-> 0]
    /\ SortedMode = [i \in Ids |-> "SortBySize"]

\* ScanDone without markRootSorted()
ScanDoneUnmarked ==
    /\ ~quit
    /\ hookErr' = "none"
    /\ hookCall' = NoCall
    /\ scanMsg = "inFlight"
    /\ scanMsg' = "delivered"
    /\ IF result.err
       THEN /\ state' = "Error"
            /\ scanErr' = TRUE
            /\ UNCHANGED <<root, cursor, stack, nodeSortGen, SortedMode>>
       ELSE /\ root' = result.node
            /\ state' = "Browsing"
            /\ cursor' = 0
            /\ stack' = <<>>
            /\ UNCHANGED <<nodeSortGen, SortedMode>>
            /\ UNCHANGED scanErr
    /\ UNCHANGED <<sort, sortGen, confirmPath, quit, trashed, scannerVars, viewVars,
                   treeVars>>

\* Update(scanDoneMsg)
ScanDone ==
    /\ ~quit
    /\ hookErr' = "none"
    /\ hookCall' = NoCall
    /\ scanMsg = "inFlight"
    /\ scanMsg' = "delivered"
    /\ IF result.err
       THEN /\ state' = "Error"
            /\ scanErr' = TRUE
            /\ UNCHANGED <<root, cursor, stack, nodeSortGen, SortedMode>>
       ELSE /\ root' = result.node
            /\ state' = "Browsing"
            /\ cursor' = 0
            /\ stack' = <<>>
            \* markRootSorted()
            /\ nodeSortGen' = [nodeSortGen EXCEPT ![result.node] = sortGen]
            /\ SortedMode' = [SortedMode EXCEPT ![result.node] = sort]
            /\ UNCHANGED scanErr
    /\ UNCHANGED <<sort, sortGen, confirmPath, quit, trashed, scannerVars, viewVars,
                   treeVars>>

\* View() in the browsing states: viewBrowse calls visibleChildren()
View ==
    /\ ~quit
    /\ state \in {"Browsing", "ConfirmDelete"}
    /\ \E ch \in visibleChildren(currentDir, Children[currentDir]) :
          MarkSorted(currentDir, ch)
    /\ UNCHANGED <<modelVars, scannerVars, viewVars, nodes, IsDir, size, Err, Parent>>

\* handleKeyScanning(msg)
handleKeyScanning(k) ==
    /\ ~quit
    /\ hookErr' = "none"
    /\ hookCall' = NoCall
    /\ state = "Scanning"
    /\ quit' = (k \in QuitKeys)
    /\ UNCHANGED <<state, root, stack, cursor, sort, sortGen, scanErr,
                   confirmPath, scanMsg, trashed, sortVars, scannerVars, viewVars, treeVars>>

\* handleKey that leaves StateError for the browser on any key
handleKeyErrorDismiss(k) ==
    /\ ~quit
    /\ hookErr' = "none"
    /\ hookCall' = NoCall
    /\ state = "Error"
    /\ state' = "Browsing"
    /\ UNCHANGED <<root, stack, cursor, sort, sortGen, scanErr,
                   confirmPath, quit, scanMsg, trashed, sortVars, scannerVars, viewVars,
                   treeVars>>

\* handleKey(msg) in StateError: no case of the switch applies
handleKeyError(k) ==
    /\ ~quit
    /\ hookErr' = "none"
    /\ hookCall' = NoCall
    /\ state = "Error"
    /\ UNCHANGED <<state, root, stack, cursor, sort, sortGen, scanErr,
                   confirmPath, quit, scanMsg, trashed, sortVars, scannerVars, viewVars,
                   treeVars>>

\* the nodes of s other than the first whose Path is that of node x
RemoveFirst(s, x) ==
    IF x \notin Range(s) THEN s
    ELSE LET i == CHOOSE i \in 1..Len(s) :
                      s[i] = x /\ \A j \in 1..(i - 1) : s[j] # x
         IN  SubSeq(s, 1, i - 1) \o SubSeq(s, i + 1, Len(s))

\* how many times node n is in the sequence s
Count(s, n) == Cardinality({i \in 1..Len(s) : s[i] = n})

\* confirmDelete that deducts the removed size from the root only
confirmDeleteRootOnly(k) ==
    /\ ~quit
    /\ state = "ConfirmDelete"
    /\ k \in ConfirmKeys
    /\ hookCall' = [hook |-> "trash", path |-> confirmPath]
    /\ \/ \* trashItem returns nil
          LET parent      == currentDir
              removedSize == IF confirmPath \in Range(Children[parent])
                             THEN size[confirmPath] ELSE 0
              kids        == RemoveFirst(Children[parent], confirmPath)
          IN  /\ hookErr' = "nil"
              /\ trashed' = trashed \cup {confirmPath}
              /\ size' = [n \in Ids |->
                            size[n] - removedSize
                                * (IF n = root THEN 1 ELSE 0)]
              /\ \E ch \in visibleChildren(parent, kids) :
                    /\ MarkSorted(parent, ch)
                    /\ cursor' = clampCursor(Len(ch), cursor)
       \/ \* trashItem returns an error
          /\ hookErr' = "error"
          /\ UNCHANGED <<trashed, size, Children, nodeSortGen, SortedMode,
                         cursor>>
    /\ state' = "Browsing"
    /\ confirmPath' = NoNode
    /\ UNCHANGED <<root, stack, sort, sortGen, scanErr, quit, scanMsg,
                   scannerVars, viewVars, nodes, IsDir, Err, Parent>>

\* confirmDelete that removes the node before it looks at trashItem's error
confirmDeleteEager(k) ==
    /\ ~quit
    /\ state = "ConfirmDelete"
    /\ k \in ConfirmKeys
    /\ hookCall' = [hook |-> "trash", path |-> confirmPath]
    /\ \/ \* trashItem returns nil
          LET parent      == currentDir
              removedSize == IF confirmPath \in Range(Children[parent])
                             THEN size[confirmPath] ELSE 0
              kids        == RemoveFirst(Children[parent], confirmPath)
          IN  /\ hookErr' = "nil"
              /\ trashed' = trashed \cup {confirmPath}
              /\ size' = [n \in Ids |->
                            size[n] - removedSize
                                * (Count(stack, n) + (IF n = root THEN 1 ELSE 0))]
              /\ \E ch \in visibleChildren(parent, kids) :
                    /\ MarkSorted(parent, ch)
                    /\ cursor' = clampCursor(Len(ch), cursor)
       \/ \* trashItem returns an error
          /\ hookErr' = "error"
          /\ Children' = [Children EXCEPT ![currentDir] =
                              RemoveFirst(@, confirmPath)]
          /\ UNCHANGED <<trashed, size, nodeSortGen, SortedMode, cursor>>
    /\ state' = "Browsing"
    /\ confirmPath' = NoNode
    /\ UNCHANGED <<root, stack, sort, sortGen, scanErr, quit, scanMsg,
                   scannerVars, viewVars, nodes, IsDir, Err, Parent>>

\* confirmDelete that deducts the removed size from the stack only
confirmDeleteStackOnly(k) ==
    /\ ~quit
    /\ state = "ConfirmDelete"
    /\ k \in ConfirmKeys
    /\ hookCall' = [hook |-> "trash", path |-> confirmPath]
    /\ \/ \* trashItem returns nil
          LET parent      == currentDir
              removedSize == IF confirmPath \in Range(Children[parent])
                             THEN size[confirmPath] ELSE 0
              kids        == RemoveFirst(Children[parent], confirmPath)
          IN  /\ hookErr' = "nil"
              /\ trashed' = trashed \cup {confirmPath}
              /\ size' = [n \in Ids |->
                            size[n] - removedSize * Count(stack, n)]
              /\ \E ch \in visibleChildren(parent, kids) :
                    /\ MarkSorted(parent, ch)
                    /\ cursor' = clampCursor(Len(ch), cursor)
       \/ \* trashItem returns an error
          /\ hookErr' = "error"
          /\ UNCHANGED <<trashed, size, Children, nodeSortGen, SortedMode,
                         cursor>>
    /\ state' = "Browsing"
    /\ confirmPath' = NoNode
    /\ UNCHANGED <<root, stack, sort, sortGen, scanErr, quit, scanMsg,
                   scannerVars, viewVars, nodes, IsDir, Err, Parent>>

\* handleKeyConfirmDelete(msg), "d", "y", "enter": trashItem(m.confirmPath)
\* and, when it succeeds, the removal and the size deductions
confirmDelete(k) ==
    /\ ~quit
    /\ state = "ConfirmDelete"
    /\ k \in ConfirmKeys
    /\ hookCall' = [hook |-> "trash", path |-> confirmPath]
    /\ \/ \* trashItem returns nil
          LET parent      == currentDir
              removedSize == IF confirmPath \in Range(Children[parent])
                             THEN size[confirmPath] ELSE 0
              kids        == RemoveFirst(Children[parent], confirmPath)
          IN  /\ hookErr' = "nil"
              /\ trashed' = trashed \cup {confirmPath}
              /\ size' = [n \in Ids |->
                            size[n] - removedSize
                                * (Count(stack, n) + (IF n = root THEN 1 ELSE 0))]
              /\ \E ch \in visibleChildren(parent, kids) :
                    /\ MarkSorted(parent, ch)
                    /\ cursor' = clampCursor(Len(ch), cursor)
       \/ \* trashItem returns an error
          /\ hookErr' = "error"
          /\ UNCHANGED <<trashed, size, Children, nodeSortGen, SortedMode,
                         cursor>>
    /\ state' = "Browsing"
    /\ confirmPath' = NoNode
    /\ UNCHANGED <<root, stack, sort, sortGen, scanErr, quit, scanMsg,
                   scannerVars, viewVars, nodes, IsDir, Err, Parent>>

\* cancelDelete that puts the cursor back on the first row
cancelDeleteHome(k) ==
    /\ ~quit
    /\ hookErr' = "none"
    /\ hookCall' = NoCall
    /\ state = "ConfirmDelete"
    /\ k \in CancelKeys
    /\ state' = "Browsing"
    /\ confirmPath' = NoNode
    /\ cursor' = 0
    /\ UNCHANGED <<root, stack, sort, sortGen, scanErr, quit, scanMsg,
                   trashed, sortVars, scannerVars, viewVars, treeVars>>

\* handleKeyConfirmDelete(msg), "esc", "n", "q"
cancelDelete(k) ==
    /\ ~quit
    /\ hookErr' = "none"
    /\ hookCall' = NoCall
    /\ state = "ConfirmDelete"
    /\ k \in CancelKeys
    /\ state' = "Browsing"
    /\ confirmPath' = NoNode
    /\ UNCHANGED <<root, stack, cursor, sort, sortGen, scanErr, quit, scanMsg,
                   trashed, sortVars, scannerVars, viewVars, treeVars>>

\* handleKeyConfirmDelete(msg), any other key
ignoreInConfirm(k) ==
    /\ ~quit
    /\ hookErr' = "none"
    /\ hookCall' = NoCall
    /\ state = "ConfirmDelete"
    /\ k \notin ConfirmKeys \cup CancelKeys
    /\ UNCHANGED <<state, root, stack, cursor, sort, sortGen, scanErr,
                   confirmPath, quit, scanMsg, trashed, sortVars, scannerVars, viewVars,
                   treeVars>>

handleKeyConfirmDelete(k) ==
    confirmDelete(k) \/ cancelDelete(k) \/ ignoreInConfirm(k)

\* handleKeyBrowsing(msg), "ctrl+c", "q"
browseQuit(k) ==
    /\ ~quit
    /\ hookErr' = "none"
    /\ hookCall' = NoCall
    /\ state = "Browsing"
    /\ k \in QuitKeys
    /\ quit' = TRUE
    /\ UNCHANGED <<state, root, stack, cursor, sort, sortGen, scanErr,
                   confirmPath, scanMsg, trashed, sortVars, scannerVars, viewVars, treeVars>>

\* handleKeyBrowsing(msg), "up", "k"
cursorUp(k) ==
    /\ ~quit
    /\ hookErr' = "none"
    /\ hookCall' = NoCall
    /\ state = "Browsing"
    /\ k \in UpKeys
    /\ cursor' = IF cursor > 0 THEN cursor - 1 ELSE cursor
    /\ UNCHANGED <<state, root, stack, sort, sortGen, scanErr, confirmPath,
                   quit, scanMsg, trashed, sortVars, scannerVars, viewVars, treeVars>>

\* handleKeyBrowsing(msg), "down", "j"
cursorDown(k) ==
    /\ ~quit
    /\ hookErr' = "none"
    /\ hookCall' = NoCall
    /\ state = "Browsing"
    /\ k \in DownKeys
    /\ \E ch \in visibleChildren(currentDir, Children[currentDir]) :
          /\ MarkSorted(currentDir, ch)
          /\ cursor' = IF cursor < Len(ch) - 1 THEN cursor + 1 ELSE cursor
    /\ UNCHANGED <<state, root, stack, sort, sortGen, scanErr, confirmPath,
                   quit, scanMsg, trashed, scannerVars, viewVars, nodes, IsDir, size,
                   Err, Parent>>

\* handleNavRight that descends into whatever is selected
handleNavRightAny(k) ==
    /\ ~quit
    /\ hookErr' = "none"
    /\ hookCall' = NoCall
    /\ state = "Browsing"
    /\ k \in RightKeys
    /\ \E ch \in visibleChildren(currentDir, Children[currentDir]) :
          /\ MarkSorted(currentDir, ch)
          /\ LET sel == selected(ch)
             IN  IF sel # NoNode
                 THEN stack' = Append(stack, sel) /\ cursor' = 0
                 ELSE UNCHANGED <<stack, cursor>>
    /\ UNCHANGED <<state, root, sort, sortGen, scanErr, confirmPath, quit,
                   scanMsg, trashed, scannerVars, viewVars, nodes, IsDir, size,
                   Err, Parent>>

\* handleNavRight()
handleNavRight(k) ==
    /\ ~quit
    /\ hookErr' = "none"
    /\ hookCall' = NoCall
    /\ state = "Browsing"
    /\ k \in RightKeys
    /\ \E ch \in visibleChildren(currentDir, Children[currentDir]) :
          /\ MarkSorted(currentDir, ch)
          /\ LET sel == selected(ch)
             IN  IF sel # NoNode /\ IsDir[sel]
                 THEN stack' = Append(stack, sel) /\ cursor' = 0
                 ELSE UNCHANGED <<stack, cursor>>
    /\ UNCHANGED <<state, root, sort, sortGen, scanErr, confirmPath, quit,
                   scanMsg, trashed, scannerVars, viewVars, nodes, IsDir, size, Err,
                   Parent>>

\* navLeft that goes back to the root
navLeftToRoot(k) ==
    /\ ~quit
    /\ hookErr' = "none"
    /\ hookCall' = NoCall
    /\ state = "Browsing"
    /\ k \in LeftKeys
    /\ IF Len(stack) > 0
       THEN /\ stack' = <<>>
            /\ \E ch \in visibleChildren(root, Children[root]) :
                  /\ MarkSorted(root, ch)
                  /\ cursor' = clampCursor(Len(ch), cursor)
       ELSE UNCHANGED <<stack, cursor, Children, nodeSortGen, SortedMode>>
    /\ UNCHANGED <<state, root, sort, sortGen, scanErr, confirmPath, quit,
                   scanMsg, trashed, scannerVars, viewVars, nodes, IsDir, size,
                   Err, Parent>>

\* navLeft without clampCursor()
navLeftNoClamp(k) ==
    /\ ~quit
    /\ hookErr' = "none"
    /\ hookCall' = NoCall
    /\ state = "Browsing"
    /\ k \in LeftKeys
    /\ IF Len(stack) > 0
       THEN LET popped == SubSeq(stack, 1, Len(stack) - 1)
                d      == currentDirOf(popped)
            IN  /\ stack' = popped
                /\ \E ch \in visibleChildren(d, Children[d]) :
                      /\ MarkSorted(d, ch)
                      /\ cursor' = cursor
       ELSE UNCHANGED <<stack, cursor, Children, nodeSortGen, SortedMode>>
    /\ UNCHANGED <<state, root, sort, sortGen, scanErr, confirmPath, quit,
                   scanMsg, trashed, scannerVars, viewVars, nodes, IsDir, size, Err,
                   Parent>>

\* handleKeyBrowsing(msg), "left", "backspace", "h"
\* navLeft that drops the outermost directory of the stack
navLeftFront(k) ==
    /\ ~quit
    /\ hookErr' = "none"
    /\ hookCall' = NoCall
    /\ state = "Browsing"
    /\ k \in LeftKeys
    /\ IF Len(stack) > 0
       THEN LET popped == Tail(stack)
                d      == currentDirOf(popped)
            IN  /\ stack' = popped
                /\ \E ch \in visibleChildren(d, Children[d]) :
                      /\ MarkSorted(d, ch)
                      /\ cursor' = clampCursor(Len(ch), cursor)
       ELSE UNCHANGED <<stack, cursor, Children, nodeSortGen, SortedMode>>
    /\ UNCHANGED <<state, root, sort, sortGen, scanErr, confirmPath, quit,
                   scanMsg, trashed, scannerVars, viewVars, nodes, IsDir, size, Err,
                   Parent>>

navLeft(k) ==
    /\ ~quit
    /\ hookErr' = "none"
    /\ hookCall' = NoCall
    /\ state = "Browsing"
    /\ k \in LeftKeys
    /\ IF Len(stack) > 0
       THEN LET popped == SubSeq(stack, 1, Len(stack) - 1)
                d      == currentDirOf(popped)
            IN  /\ stack' = popped
                /\ \E ch \in visibleChildren(d, Children[d]) :
                      /\ MarkSorted(d, ch)
                      /\ cursor' = clampCursor(Len(ch), cursor)
       ELSE UNCHANGED <<stack, cursor, Children, nodeSortGen, SortedMode>>
    /\ UNCHANGED <<state, root, sort, sortGen, scanErr, confirmPath, quit,
                   scanMsg, trashed, scannerVars, viewVars, nodes, IsDir, size, Err,
                   Parent>>

\* handleSortToggle that sorts the current directory at once
handleSortToggleEager(k) ==
    /\ ~quit
    /\ hookErr' = "none"
    /\ hookCall' = NoCall
    /\ state = "Browsing"
    /\ k = "s"
    /\ sortGen < MaxSortGen
    /\ sort' = IF sort = "SortBySize" THEN "SortByName" ELSE "SortBySize"
    /\ sortGen' = sortGen + 1
    /\ cursor' = 0
    /\ \E ch \in sortNode(Children[currentDir], sort') :
          /\ Children' = [Children EXCEPT ![currentDir] = ch]
          /\ nodeSortGen' = [nodeSortGen EXCEPT ![currentDir] = sortGen']
          /\ SortedMode' = [SortedMode EXCEPT ![currentDir] = sort']
    /\ UNCHANGED <<state, root, stack, scanErr, confirmPath, quit, scanMsg,
                   trashed, scannerVars, viewVars, nodes, IsDir, size, Err,
                   Parent>>

\* handleSortToggle()
handleSortToggle(k) ==
    /\ ~quit
    /\ hookErr' = "none"
    /\ hookCall' = NoCall
    /\ state = "Browsing"
    /\ k = "s"
    /\ sortGen < MaxSortGen
    /\ sort' = IF sort = "SortBySize" THEN "SortByName" ELSE "SortBySize"
    /\ sortGen' = sortGen + 1
    /\ cursor' = 0
    /\ UNCHANGED <<state, root, stack, scanErr, confirmPath, quit, scanMsg,
                   trashed, sortVars, scannerVars, viewVars, treeVars>>

\* handleOpen() and handleReveal(), "o" and "r": openPath or revealPath is
\* called for the selected node, and its failure puts the Model in StateError
handleOpenOrReveal(k) ==
    /\ ~quit
    /\ state = "Browsing"
    /\ k \in {"o", "r"}
    /\ \E ch \in visibleChildren(currentDir, Children[currentDir]) :
          /\ MarkSorted(currentDir, ch)
          /\ LET sel == selected(ch)
             IN  IF sel # NoNode
                 THEN /\ hookCall' = [hook |-> IF k = "o" THEN "open"
                                                ELSE "reveal",
                                       path |-> sel]
                      /\ \/ hookErr' = "nil" /\ UNCHANGED <<state, scanErr>>
                         \/ /\ hookErr' = "error"
                            /\ state' = "Error" /\ scanErr' = TRUE
                 ELSE /\ hookErr' = "none" /\ hookCall' = NoCall
                      /\ UNCHANGED <<state, scanErr>>
    /\ UNCHANGED <<root, stack, cursor, sort, sortGen, confirmPath, quit,
                   scanMsg, trashed, scannerVars, viewVars, nodes, IsDir, size, Err,
                   Parent>>

\* askDelete that captures the path of the first row
askDeleteFirst(k) ==
    /\ ~quit
    /\ hookErr' = "none"
    /\ hookCall' = NoCall
    /\ state = "Browsing"
    /\ k = "d"
    /\ \E ch \in visibleChildren(currentDir, Children[currentDir]) :
          /\ MarkSorted(currentDir, ch)
          /\ LET sel == selected(ch)
             IN  IF sel # NoNode
                 THEN state' = "ConfirmDelete" /\ confirmPath' = ch[1]
                 ELSE UNCHANGED <<state, confirmPath>>
    /\ UNCHANGED <<root, stack, cursor, sort, sortGen, scanErr, quit, scanMsg,
                   trashed, scannerVars, viewVars, nodes, IsDir, size, Err,
                   Parent>>

\* handleKeyBrowsingActions(key), "d"
askDelete(k) ==
    /\ ~quit
    /\ hookErr' = "none"
    /\ hookCall' = NoCall
    /\ state = "Browsing"
    /\ k = "d"
    /\ \E ch \in visibleChildren(currentDir, Children[currentDir]) :
          /\ MarkSorted(currentDir, ch)
          /\ LET sel == selected(ch)
             IN  IF sel # NoNode
                 THEN state' = "ConfirmDelete" /\ confirmPath' = sel
                 ELSE UNCHANGED <<state, confirmPath>>
    /\ UNCHANGED <<root, stack, cursor, sort, sortGen, scanErr, quit, scanMsg,
                   trashed, scannerVars, viewVars, nodes, IsDir, size, Err, Parent>>

\* handleKeyBrowsingActions(key), "g", "home"
cursorHome(k) ==
    /\ ~quit
    /\ hookErr' = "none"
    /\ hookCall' = NoCall
    /\ state = "Browsing"
    /\ k \in HomeKeys
    /\ cursor' = 0
    /\ UNCHANGED <<state, root, stack, sort, sortGen, scanErr, confirmPath,
                   quit, scanMsg, trashed, sortVars, scannerVars, viewVars, treeVars>>

\* handleKeyBrowsingActions(key), "G", "end"
cursorEnd(k) ==
    /\ ~quit
    /\ hookErr' = "none"
    /\ hookCall' = NoCall
    /\ state = "Browsing"
    /\ k \in EndKeys
    /\ \E ch \in visibleChildren(currentDir, Children[currentDir]) :
          /\ MarkSorted(currentDir, ch)
          /\ cursor' = IF Len(ch) > 0 THEN Len(ch) - 1 ELSE cursor
    /\ UNCHANGED <<state, root, stack, sort, sortGen, scanErr, confirmPath,
                   quit, scanMsg, trashed, scannerVars, viewVars, nodes, IsDir, size,
                   Err, Parent>>

\* handleKeyBrowsingActions(key), a key of no case
ignoreInBrowsing(k) ==
    /\ ~quit
    /\ hookErr' = "none"
    /\ hookCall' = NoCall
    /\ state = "Browsing"
    /\ k \notin QuitKeys \cup UpKeys \cup DownKeys \cup RightKeys \cup LeftKeys
                 \cup HomeKeys \cup EndKeys \cup {"s", "o", "r", "d"}
    /\ UNCHANGED <<state, root, stack, cursor, sort, sortGen, scanErr,
                   confirmPath, quit, scanMsg, trashed, sortVars, scannerVars, viewVars,
                   treeVars>>

handleKeyBrowsingActions(k) ==
    \/ handleSortToggle(k)
    \/ handleOpenOrReveal(k)
    \/ askDelete(k)
    \/ cursorHome(k)
    \/ cursorEnd(k)
    \/ ignoreInBrowsing(k)

handleKeyBrowsing(k) ==
    \/ browseQuit(k)
    \/ cursorUp(k)
    \/ cursorDown(k)
    \/ handleNavRight(k)
    \/ navLeft(k)
    \/ handleKeyBrowsingActions(k)

\* handleKey(msg): Update(tea.KeyMsg)
handleKey(k) ==
    \/ handleKeyScanning(k)
    \/ handleKeyConfirmDelete(k)
    \/ handleKeyBrowsing(k)
    \/ handleKeyError(k)

(* ------------------------------ processBatch's fan-out ----------------- *)

\* the chunk goroutines processBatch starts for a batch of n entries
ChunksOf(n) ==
    LET nc        == IF n < minFanOut THEN 1 ELSE numChunks
        chunkSize == (n + nc - 1) \div nc
        started   == {i \in 0..(nc - 1) : i * chunkSize < n}
    IN  [k \in 1..Cardinality(started) |->
            [j |-> (k - 1) * chunkSize,
             e |-> Min((k - 1) * chunkSize + chunkSize, n),
             localSize |-> 0,
             pc |-> "loop"]]

\* processBatch starts the chunk goroutines of d's batch
FanOut(d) ==
    /\ pc[d] = "chunk"
    /\ chunks[d] = <<>>
    /\ chunks' = [chunks EXCEPT ![d] = ChunksOf(Len(entries[d]))]
    /\ UNCHANGED <<envVars, scanVars, sinkVars, treeVars, taskVars, modelVars,
                   sortVars, viewVars, numCPU, numWorkers, startVars>>

\* the k-th chunk goroutine of d's batch handles its next entry
ChunkStep(d, k) ==
    /\ pc[d] = "chunk"
    /\ k \in DOMAIN chunks[d]
    /\ chunks[d][k].pc = "loop"
    /\ chunks[d][k].j < chunks[d][k].e
    /\ LET e == entries[d][chunks[d][k].j + 1]
       IN  \/ /\ entryAction(e) = "skip"
              /\ chunks' = [chunks EXCEPT ![d][k].j = @ + 1]
              /\ UNCHANGED <<faults, globalWg, size, pc, localWg>>
           \/ /\ entryAction(e) = "spawn"
              /\ spawnScanDir(d, e)
              /\ chunks' = [chunks EXCEPT ![d][k].j = @ + 1]
              /\ UNCHANGED <<faults, size>>
           \/ \* entry.Info() succeeds
              /\ entryAction(e) = "stat"
              /\ size' = [size EXCEPT ![e] = fsys[e].size]
              /\ chunks' = [chunks EXCEPT ![d][k].j = @ + 1,
                                          ![d][k].localSize = @ + fsys[e].size]
              /\ UNCHANGED <<faults, globalWg, pc, localWg>>
           \/ \* entry.Info() fails
              /\ entryAction(e) = "stat"
              /\ faults > 0
              /\ faults' = faults - 1
              /\ chunks' = [chunks EXCEPT ![d][k].j = @ + 1]
              /\ UNCHANGED <<globalWg, size, pc, localWg>>
    /\ UNCHANGED <<fsys, ctxErr, scanPc, result, semCap, sem, sinkVars, nodes,
                   IsDir, Children, Err, Parent, readPos, entries, idx, totalSize,
                   modelVars, sortVars, viewVars, numCPU, numWorkers, startVars>>

\* ChunkDone that stores its local size in totalSize
ChunkDoneStore(d, k) ==
    /\ pc[d] = "chunk"
    /\ k \in DOMAIN chunks[d]
    /\ chunks[d][k].pc = "loop"
    /\ chunks[d][k].j = chunks[d][k].e
    /\ totalSize' = [totalSize EXCEPT ![d] =
                        IF chunks[d][k].localSize > 0
                        THEN chunks[d][k].localSize ELSE @]
    /\ chunks' = [chunks EXCEPT ![d][k].pc = "done"]
    /\ UNCHANGED <<envVars, scanVars, sinkVars, treeVars, pc, localWg, readPos,
                   entries, idx, modelVars, sortVars, viewVars, numCPU,
                   numWorkers, startVars>>

\* the k-th chunk goroutine of d's batch leaves its loop: totalSize.Add and
\* wg.Done
ChunkDone(d, k) ==
    /\ pc[d] = "chunk"
    /\ k \in DOMAIN chunks[d]
    /\ chunks[d][k].pc = "loop"
    /\ chunks[d][k].j = chunks[d][k].e
    /\ totalSize' = [totalSize EXCEPT ![d] =
                        IF chunks[d][k].localSize > 0
                        THEN @ + chunks[d][k].localSize ELSE @]
    /\ chunks' = [chunks EXCEPT ![d][k].pc = "done"]
    /\ UNCHANGED <<envVars, scanVars, sinkVars, treeVars, pc, localWg, readPos,
                   entries, idx, modelVars, sortVars, viewVars, numCPU,
                   numWorkers, startVars>>

\* wg.Wait returns in processBatch, which adds the batch's total to the
\* directory's size
BatchDone(d) ==
    /\ pc[d] = "chunk"
    /\ chunks[d] # <<>>
    /\ \A k \in DOMAIN chunks[d] : chunks[d][k].pc = "done"
    /\ chunks' = [chunks EXCEPT ![d] = <<>>]
    /\ IF totalSize[d] > 0
       THEN /\ size' = [size EXCEPT ![d] = @ + totalSize[d]]
            /\ pc' = [pc EXCEPT ![d] = "send"]
            /\ UNCHANGED <<entries, idx, totalSize>>
       ELSE /\ pc' = [pc EXCEPT ![d] = "read"]
            /\ entries' = [entries EXCEPT ![d] = <<>>]
            /\ idx' = [idx EXCEPT ![d] = 0]
            /\ UNCHANGED <<size, totalSize>>
    /\ UNCHANGED <<envVars, scanVars, sinkVars, nodes, IsDir, Children, Err,
                   Parent, localWg, readPos, modelVars, sortVars, viewVars,
                   numCPU, numWorkers, startVars>>

(* ------------------------------ startScan ------------------------------ *)

\* startScan closes the progress channel, Scan having returned
CloseSink ==
    /\ scanPc = "returned"
    /\ ~chClosed
    /\ chClosed' = TRUE
    /\ UNCHANGED <<drainDone, envVars, scanVars, sinkVars, treeVars, taskVars,
                   modelVars, sortVars, viewVars, poolVars>>

\* the drain goroutine's range loop ends on the closed and empty channel,
\* and it closes drainDone
DrainEnd ==
    /\ chClosed
    /\ progressCh = <<>>
    /\ ~drainDone
    /\ drainDone' = TRUE
    /\ UNCHANGED <<chClosed, envVars, scanVars, sinkVars, treeVars, taskVars,
                   modelVars, sortVars, viewVars, poolVars>>

\* startScan that does not wait for the drain goroutine
SendScanDoneEarly ==
    /\ chClosed
    /\ scanMsg = "none"
    /\ scanMsg' = "inFlight"
    /\ IF result.err
       THEN UNCHANGED Children
       ELSE \E order \in SortBySize(Children[result.node]) :
               Children' = [Children EXCEPT ![result.node] = order]
    /\ UNCHANGED <<state, root, stack, cursor, sort, sortGen, scanErr,
                   confirmPath, quit, trashed, hookErr, hookCall, sortVars,
                   scannerVars, viewVars, nodes, IsDir, size, Err, Parent>>

\* startScan has received from drainDone: it sorts the root's children by
\* size, unless Scan failed, and returns its scanDoneMsg
SendScanDone ==
    /\ drainDone
    /\ scanMsg = "none"
    /\ scanMsg' = "inFlight"
    /\ IF result.err
       THEN UNCHANGED Children
       ELSE \E order \in SortBySize(Children[result.node]) :
               Children' = [Children EXCEPT ![result.node] = order]
    /\ UNCHANGED <<state, root, stack, cursor, sort, sortGen, scanErr,
                   confirmPath, quit, trashed, hookErr, hookCall, sortVars,
                   scannerVars, viewVars, nodes, IsDir, size, Err, Parent>>

(* ------------------------------ the semaphore's size ------------------- *)

\* numWorkers as Scan computes it from runtime.NumCPU()
NumWorkers(cpu) == IF cpu * 32 < 256 THEN 256 ELSE cpu * 32

\* Scan computes numWorkers, the capacity of sem
SizeSem ==
    /\ numCPU # 0
    /\ numWorkers = 0
    /\ numWorkers' = NumWorkers(numCPU)
    /\ UNCHANGED <<numCPU, chunks, envVars, scanVars, sinkVars, treeVars, taskVars,
                   modelVars, sortVars, viewVars, startVars>>

(* ------------------------------ the view -------------------------------- *)

\* scrollWindow without the correction at the end of the list
scrollWindowNoClip(c, total, height) ==
    IF total <= height THEN <<0, total>>
    ELSE LET start == IF c - (height \div 2) < 0 THEN 0
                      ELSE c - (height \div 2)
         IN  <<start, start + height>>

\* scrollWindow(cursor, total, height): <<start, end>>
scrollWindow(c, total, height) ==
    IF total <= height THEN <<0, total>>
    ELSE LET start == IF c - (height \div 2) < 0 THEN 0
                      ELSE c - (height \div 2)
             end   == start + height
         IN  IF end > total
             THEN <<IF total - height < 0 THEN 0 ELSE total - height, total>>
             ELSE <<start, end>>

\* a call of scrollWindow returns
ScrollCall ==
    /\ scrollArgs # <<>>
    /\ scrollRet = <<>>
    /\ scrollRet' = scrollWindow(scrollArgs[1], scrollArgs[2], scrollArgs[3])
    /\ UNCHANGED <<scrollArgs, truncArgs, truncRet, envVars, scanVars, sinkVars,
                   treeVars, taskVars, modelVars, sortVars, poolVars, startVars>>

\* the bytes of truncate's strings: 'a'; the two bytes of U+03B1; the three
\* bytes of U+2026.  Other combinations of them are valid too (206 128 is
\* U+0380), and most are invalid UTF-8.  None leads a four-byte form.
Alphabet == {97, 206, 177, 226, 128, 166}

\* utf8.RuneError, what an invalid byte decodes to
RuneError == 65533

\* the literal "\u2026" of truncate, as the bytes of the source file
Ellipsis == <<226, 128, 166>>

\* a UTF-8 continuation byte
Cont(b) == b >= 128 /\ b <= 191

\* the first rune of the bytes s and its width: <<rune, width>>
DecodeRune(s) ==
    LET b0 == s[1]
    IN  IF b0 < 128 THEN <<b0, 1>>
        ELSE IF /\ b0 >= 194 /\ b0 <= 223
                /\ Len(s) >= 2 /\ Cont(s[2])
             THEN <<(b0 - 192) * 64 + (s[2] - 128), 2>>
        ELSE IF /\ b0 >= 224 /\ b0 <= 239
                /\ Len(s) >= 3 /\ Cont(s[2]) /\ Cont(s[3])
                /\ (b0 = 224 => s[2] >= 160)
                /\ (b0 = 237 => s[2] <= 159)
             THEN <<(b0 - 224) * 4096 + (s[2] - 128) * 64 + (s[3] - 128), 3>>
        ELSE <<RuneError, 1>>

\* []rune(s)
RECURSIVE Decode(_)
Decode(s) ==
    IF s = <<>> THEN <<>>
    ELSE LET rw == DecodeRune(s)
         IN  <<rw[1]>> \o Decode(SubSeq(s, rw[2] + 1, Len(s)))

\* the UTF-8 bytes of one rune
EncodeRune(r) ==
    IF r < 128 THEN <<r>>
    ELSE IF r < 2048 THEN <<192 + (r \div 64), 128 + (r % 64)>>
    ELSE IF r >= 55296 /\ r <= 57343 THEN <<239, 191, 189>>
    ELSE <<224 + (r \div 4096), 128 + ((r \div 64) % 64), 128 + (r % 64)>>

\* string(runes)
RECURSIVE Encode(_)
Encode(runes) ==
    IF runes = <<>> THEN <<>>
    ELSE EncodeRune(runes[1]) \o Encode(Tail(runes))

\* truncate that counts and cuts bytes
truncateBytes(s, maxLen) ==
    IF maxLen <= 0 THEN <<>>
    ELSE IF Len(s) <= maxLen THEN s
    ELSE IF maxLen <= 1 THEN SubSeq(s, 1, maxLen)
    ELSE SubSeq(s, 1, maxLen - 1) \o Ellipsis

\* truncate(s, maxLen)
truncate(s, maxLen) ==
    IF maxLen <= 0 THEN <<>>
    ELSE LET runes == Decode(s)
         IN  IF Len(runes) <= maxLen THEN s
             ELSE IF maxLen <= 1 THEN Encode(SubSeq(runes, 1, maxLen))
             ELSE Encode(SubSeq(runes, 1, maxLen - 1)) \o Ellipsis

\* a call of truncate returns
TruncateCall ==
    /\ truncArgs # <<>>
    /\ truncRet = <<>>
    /\ truncRet' = <<truncate(truncArgs[1], truncArgs[2])>>
    /\ UNCHANGED <<truncArgs, scrollArgs, scrollRet, envVars, scanVars, sinkVars,
                   treeVars, taskVars, modelVars, sortVars, poolVars, startVars>>

(* ------------------------------ specifications ------------------------- *)

Next ==
    \/ Cancel /\ UNCHANGED <<modelVars, sortVars, viewVars, poolVars, startVars>>
    \/ Drain /\ UNCHANGED <<modelVars, sortVars, viewVars, poolVars, startVars>>
    \/ ScanStart /\ UNCHANGED <<modelVars, sortVars, viewVars, poolVars, startVars>>
    \/ ScanReturn /\ UNCHANGED <<modelVars, sortVars, viewVars, poolVars, startVars>>
    \/ \E d \in Ids : scanDirStart(d) /\ UNCHANGED <<modelVars, sortVars, viewVars, poolVars, startVars>>
    \/ \E d \in Ids : Acquire(d) /\ UNCHANGED <<modelVars, sortVars, viewVars, poolVars, startVars>>
    \/ \E d \in Ids : OpenDir(d) /\ UNCHANGED <<modelVars, sortVars, viewVars, poolVars, startVars>>
    \/ \E d \in Ids : ReadDir(d) /\ UNCHANGED <<modelVars, sortVars, viewVars, poolVars, startVars>>
    \/ \E d \in Ids : ChunkEntry(d) /\ UNCHANGED <<modelVars, sortVars, viewVars, poolVars, startVars>>
    \/ \E d \in Ids : Aggregate(d) /\ UNCHANGED <<modelVars, sortVars, viewVars, poolVars, startVars>>
    \/ \E d \in Ids : EmitProgress(d) /\ UNCHANGED <<modelVars, sortVars, viewVars, poolVars, startVars>>
    \/ \E d \in Ids : CloseDir(d) /\ UNCHANGED <<modelVars, sortVars, viewVars, poolVars, startVars>>
    \/ \E d \in Ids : WaitChildren(d) /\ UNCHANGED <<modelVars, sortVars, viewVars, poolVars, startVars>>
    \/ \E d \in Ids : AddToParent(d) /\ UNCHANGED <<modelVars, sortVars, viewVars, poolVars, startVars>>
    \/ \E d \in Ids : ParentDone(d) /\ UNCHANGED <<modelVars, sortVars, viewVars, poolVars, startVars>>
    \/ \E d \in Ids : GlobalDone(d) /\ UNCHANGED <<modelVars, sortVars, viewVars, poolVars, startVars>>

Spec == Init /\ [][Next]_vars

\* the scans whose progress sink is a channel of capacity one
InitFair == Init /\ ~chNil /\ chCap = 1

\* Go schedules runnable goroutines: while some goroutine of the scan can
\* take a step, one of them does.  The caller need not cancel, and the
\* consumer need not receive.
FairSpec ==
    /\ InitFair
    /\ [][Next]_vars
    /\ WF_vars((Scan \/ \E d \in Ids : scanDir(d))
                  /\ UNCHANGED <<modelVars, sortVars, viewVars, poolVars, startVars>>)

NavNext ==
    \/ ScanDone
    \/ View
    \/ \E k \in Keys : handleKeyScanning(k)
    \/ \E k \in Keys : handleKeyError(k)
    \/ \E k \in Keys : confirmDelete(k)
    \/ \E k \in Keys : cancelDelete(k)
    \/ \E k \in Keys : ignoreInConfirm(k)
    \/ \E k \in Keys : browseQuit(k)
    \/ \E k \in Keys : cursorUp(k)
    \/ \E k \in Keys : cursorDown(k)
    \/ \E k \in Keys : handleNavRight(k)
    \/ \E k \in Keys : navLeft(k)
    \/ \E k \in Keys : handleSortToggle(k)
    \/ \E k \in Keys : handleOpenOrReveal(k)
    \/ \E k \in Keys : askDelete(k)
    \/ \E k \in Keys : cursorHome(k)
    \/ \E k \in Keys : cursorEnd(k)
    \/ \E k \in Keys : ignoreInBrowsing(k)

\* the UI from the moment startScan's message is in flight
NavSpec == NavInit /\ [][NavNext]_vars

\* scrollWindow is about to be called with some cursor, total and height;
\* the rest of the program is as New left it, no scan started
ScrollInit ==
    /\ scrollArgs \in (0..MaxTotal) \X (0..MaxTotal) \X (0..MaxHeight)
    /\ scrollRet = <<>>
    /\ fsys = [i \in {Root} |-> [kind |-> "dir", parent |-> NoNode, size |-> 0]]
    /\ ctxErr = FALSE
    /\ faults = MaxFaults
    /\ scanPc = "init"
    /\ result = [node |-> NoNode, err |-> FALSE]
    /\ semCap = 1 /\ sem = 0 /\ globalWg = 0
    /\ chNil = FALSE /\ chCap = 1 /\ progressCh = <<>>
    /\ received = 0 /\ dropped = 0
    /\ nodes = {}
    /\ IsDir = [i \in Ids |-> FALSE]
    /\ size = [i \in Ids |-> 0]
    /\ Children = [i \in Ids |-> <<>>]
    /\ Err = [i \in Ids |-> FALSE]
    /\ Parent = [i \in Ids |-> NoNode]
    /\ pc = [i \in Ids |-> "idle"]
    /\ localWg = [i \in Ids |-> 0]
    /\ readPos = [i \in Ids |-> 0]
    /\ entries = [i \in Ids |-> <<>>]
    /\ idx = [i \in Ids |-> 0]
    /\ totalSize = [i \in Ids |-> 0]
    /\ New
    /\ scanMsg = "none"
    /\ trashed = {}
    /\ hookErr = "none"
    /\ hookCall = NoCall
    /\ truncArgs = <<>> /\ truncRet = <<>>
    /\ numCPU = 0 /\ numWorkers = 0
    /\ chunks = [i \in Ids |-> <<>>]
    /\ chClosed = FALSE /\ drainDone = FALSE
    /\ nodeSortGen = [i \in Ids |-> 0]
    /\ SortedMode = [i \in Ids |-> "SortBySize"]

ScrollNext == ScrollCall

\* the calls of scrollWindow
ScrollSpec == ScrollInit /\ [][ScrollNext]_vars

\* the program as New left it, no scan started, on the one-directory file
\* system
NoScan ==
    /\ fsys = [i \in {Root} |-> [kind |-> "dir", parent |-> NoNode, size |-> 0]]
    /\ ctxErr = FALSE
    /\ faults = MaxFaults
    /\ scanPc = "init"
    /\ result = [node |-> NoNode, err |-> FALSE]
    /\ semCap = 1 /\ sem = 0 /\ globalWg = 0
    /\ chNil = FALSE /\ chCap = 1 /\ progressCh = <<>>
    /\ received = 0 /\ dropped = 0
    /\ nodes = {}
    /\ IsDir = [i \in Ids |-> FALSE]
    /\ size = [i \in Ids |-> 0]
    /\ Children = [i \in Ids |-> <<>>]
    /\ Err = [i \in Ids |-> FALSE]
    /\ Parent = [i \in Ids |-> NoNode]
    /\ pc = [i \in Ids |-> "idle"]
    /\ localWg = [i \in Ids |-> 0]
    /\ readPos = [i \in Ids |-> 0]
    /\ entries = [i \in Ids |-> <<>>]
    /\ idx = [i \in Ids |-> 0]
    /\ totalSize = [i \in Ids |-> 0]
    /\ New
    /\ scanMsg = "none"
    /\ trashed = {}
    /\ hookErr = "none"
    /\ hookCall = NoCall
    /\ chunks = [i \in Ids |-> <<>>]
    /\ chClosed = FALSE /\ drainDone = FALSE
    /\ nodeSortGen = [i \in Ids |-> 0]
    /\ SortedMode = [i \in Ids |-> "SortBySize"]

\* the byte strings of up to MaxStrLen bytes
Strings == UNION {[1..n -> Alphabet] : n \in 0..MaxStrLen}

\* truncate is about to be called with some string and maxLen
TruncInit ==
    /\ truncArgs \in Strings \X (-1..MaxTruncLen)
    /\ truncRet = <<>>
    /\ scrollArgs = <<>> /\ scrollRet = <<>>
    /\ numCPU = 0 /\ numWorkers = 0
    /\ NoScan

TruncNext == TruncateCall

\* the calls of truncate
TruncSpec == TruncInit /\ [][TruncNext]_vars

\* the scan with processBatch's chunk goroutines in place of the one
\* sequential pass over the batch; BatchSpec runs it on the progress channels
\* of capacity one, on which sends are buffered and dropped alike
BatchNext ==
    \/ Cancel /\ UNCHANGED <<modelVars, sortVars, viewVars, poolVars, startVars>>
    \/ Drain /\ UNCHANGED <<modelVars, sortVars, viewVars, poolVars, startVars>>
    \/ ScanStart /\ UNCHANGED <<modelVars, sortVars, viewVars, poolVars, startVars>>
    \/ ScanReturn /\ UNCHANGED <<modelVars, sortVars, viewVars, poolVars, startVars>>
    \/ \E d \in Ids : scanDirStart(d) /\ UNCHANGED <<modelVars, sortVars, viewVars, poolVars, startVars>>
    \/ \E d \in Ids : Acquire(d) /\ UNCHANGED <<modelVars, sortVars, viewVars, poolVars, startVars>>
    \/ \E d \in Ids : OpenDir(d) /\ UNCHANGED <<modelVars, sortVars, viewVars, poolVars, startVars>>
    \/ \E d \in Ids : ReadDir(d) /\ UNCHANGED <<modelVars, sortVars, viewVars, poolVars, startVars>>
    \/ \E d \in Ids : FanOut(d)
    \/ \E d \in Ids, k \in 1..numChunks : ChunkStep(d, k)
    \/ \E d \in Ids, k \in 1..numChunks : ChunkDone(d, k)
    \/ \E d \in Ids : BatchDone(d)
    \/ \E d \in Ids : EmitProgress(d) /\ UNCHANGED <<modelVars, sortVars, viewVars, poolVars, startVars>>
    \/ \E d \in Ids : CloseDir(d) /\ UNCHANGED <<modelVars, sortVars, viewVars, poolVars, startVars>>
    \/ \E d \in Ids : WaitChildren(d) /\ UNCHANGED <<modelVars, sortVars, viewVars, poolVars, startVars>>
    \/ \E d \in Ids : AddToParent(d) /\ UNCHANGED <<modelVars, sortVars, viewVars, poolVars, startVars>>
    \/ \E d \in Ids : ParentDone(d) /\ UNCHANGED <<modelVars, sortVars, viewVars, poolVars, startVars>>
    \/ \E d \in Ids : GlobalDone(d) /\ UNCHANGED <<modelVars, sortVars, viewVars, poolVars, startVars>>

BatchSpec == InitFair /\ [][BatchNext]_vars

\* startScan calls Scan with the Model's progress channel and a context that
\* is never cancelled
StartInit == Init /\ ~chNil

\* startScan: the scan, the drain goroutine, and what follows Scan's return
StartNext ==
    \/ Drain /\ UNCHANGED <<modelVars, sortVars, viewVars, poolVars, startVars>>
    \/ ScanStart /\ UNCHANGED <<modelVars, sortVars, viewVars, poolVars, startVars>>
    \/ ScanReturn /\ UNCHANGED <<modelVars, sortVars, viewVars, poolVars, startVars>>
    \/ \E d \in Ids : scanDirStart(d) /\ UNCHANGED <<modelVars, sortVars, viewVars, poolVars, startVars>>
    \/ \E d \in Ids : Acquire(d) /\ UNCHANGED <<modelVars, sortVars, viewVars, poolVars, startVars>>
    \/ \E d \in Ids : OpenDir(d) /\ UNCHANGED <<modelVars, sortVars, viewVars, poolVars, startVars>>
    \/ \E d \in Ids : ReadDir(d) /\ UNCHANGED <<modelVars, sortVars, viewVars, poolVars, startVars>>
    \/ \E d \in Ids : ChunkEntry(d) /\ UNCHANGED <<modelVars, sortVars, viewVars, poolVars, startVars>>
    \/ \E d \in Ids : Aggregate(d) /\ UNCHANGED <<modelVars, sortVars, viewVars, poolVars, startVars>>
    \/ \E d \in Ids : EmitProgress(d) /\ UNCHANGED <<modelVars, sortVars, viewVars, poolVars, startVars>>
    \/ \E d \in Ids : CloseDir(d) /\ UNCHANGED <<modelVars, sortVars, viewVars, poolVars, startVars>>
    \/ \E d \in Ids : WaitChildren(d) /\ UNCHANGED <<modelVars, sortVars, viewVars, poolVars, startVars>>
    \/ \E d \in Ids : AddToParent(d) /\ UNCHANGED <<modelVars, sortVars, viewVars, poolVars, startVars>>
    \/ \E d \in Ids : ParentDone(d) /\ UNCHANGED <<modelVars, sortVars, viewVars, poolVars, startVars>>
    \/ \E d \in Ids : GlobalDone(d) /\ UNCHANGED <<modelVars, sortVars, viewVars, poolVars, startVars>>
    \/ CloseSink
    \/ DrainEnd
    \/ SendScanDone

StartSpec == StartInit /\ [][StartNext]_vars

\* Scan is about to size its semaphore on a machine of some number of CPUs
CapInit ==
    /\ numCPU \in 1..MaxCPU
    /\ numWorkers = 0
    /\ scrollArgs = <<>> /\ scrollRet = <<>>
    /\ truncArgs = <<>> /\ truncRet = <<>>
    /\ NoScan

CapNext == SizeSem

\* the sizing of the semaphore
CapSpec == CapInit /\ [][CapNext]_vars

(* ------------------------------ properties ----------------------------- *)

Returned == scanPc = "returned"

\* Scan returned a tree whose root is a directory
ReturnedDir == Returned /\ result.node = Root /\ IsDir[Root]

\* no system call has failed
NoFault == faults = MaxFaults

\* the sum of the sizes of d's children
ChildSizes(d) ==
    SumSeq([i \in 1..Len(Children[d]) |-> size[Children[d][i]]])

\* every directory node's size is the sum of its children's sizes
Conserved == \A d \in nodes : IsDir[d] => size[d] = ChildSizes(d)

\* the goroutines that have finished, and those that never started
Finished(d) == pc[d] \in {"idle", "done"}

\* the goroutines that have added their size to their parent and have
\* called parentWg.Done()
Signalled(d) == pc[d] \in {"globalDone", "done"}

\* the positions after localChildrenWg.Wait() in the deferred function
AfterWait == {"addParent", "parentDone", "globalDone", "done"}

\* C1: when Scan returns a directory root and ctx was not cancelled, every
\* directory node's size is the sum of its children's sizes.
C1_SizeConservation == (ReturnedDir /\ ~ctxErr) => Conserved

\* a returned, uncancelled scan of a tree with a non-empty nested directory
\* that had to share one semaphore slot
C1_Witness ==
    /\ ReturnedDir /\ ~ctxErr /\ semCap = 1
    /\ \E d \in nodes \ {Root} : IsDir[d] /\ size[d] > 0 /\ size[Root] > size[d]

\* C2: a directory task that has passed its wait on its children (and so adds
\* its size to its parent and signals completion) has only child tasks that
\* have signalled completion, and its size is already the sum of its
\* children's sizes.
C2_CompletionOrdering ==
    \A d \in Ids :
        pc[d] \in AfterWait =>
            /\ \A c \in Range(Children[d]) : IsDir[c] => Signalled(c)
            /\ size[d] = ChildSizes(d)

\* a subdirectory about to add its size, which holds a finished
\* subdirectory's bytes, to its parent
C2_Witness ==
    \E d \in Ids \ {Root} :
        /\ pc[d] = "addParent"
        /\ \E c \in Range(Children[d]) : IsDir[c] /\ Signalled(c) /\ size[c] > 0

\* C3: once Scan has returned every goroutine it spawned has ended, and from
\* then on no node changes and nothing is sent on the progress channel.
C3_Quiescence ==
    Returned =>
        /\ \A d \in Ids : Finished(d)
        /\ ~ENABLED (/\ Next
                     /\ ~(/\ treeVars' = treeVars
                          /\ dropped' = dropped
                          /\ Len(progressCh') <= Len(progressCh)
                          /\ received' + SumSeq(progressCh')
                                = received + SumSeq(progressCh)))

\* a returned scan of three directories with a progress value still buffered
C3_Witness ==
    /\ ReturnedDir
    /\ Cardinality({d \in Ids : pc[d] = "done"}) >= 3
    /\ progressCh # <<>>

\* C4: whatever the tree and the semaphore capacity, until Scan has returned
\* some goroutine of the scan can take a step, and eventually every goroutine
\* has ended and Scan has returned.
C4_DeadlockFreedom ==
    /\ [](Returned \/ ENABLED (Scan \/ \E d \in Ids : scanDir(d)))
    /\ <>(Returned /\ \A d \in Ids : Finished(d))

\* a returned scan of more directories than the semaphore has slots, all read
C4_Witness ==
    /\ ReturnedDir /\ ~ctxErr /\ NoFault
    /\ Cardinality({d \in Ids : pc[d] = "done"}) > semCap
    /\ nodes = DOMAIN fsys

\* C5: no goroutine is spawned for a subdirectory while the goroutine of the
\* directory that holds it has a semaphore slot.
C5_NoSlotAtSpawn ==
    [][\A c \in Ids \ {Root} :
          (pc[c] = "idle" /\ pc'[c] = "start") => pc[Parent[c]] \notin Holding]_vars

\* C6: at most cap(sem) goroutines are between their acquire and their
\* release, and len(sem) counts them.
C6_BoundedIO ==
    /\ Cardinality({d \in Ids : pc[d] \in Holding}) <= semCap
    /\ Cardinality({d \in Ids : pc[d] \in Holding}) = sem

\* every slot of a two-slot semaphore is taken and a third goroutine waits
C6_Witness ==
    /\ semCap > 1
    /\ Cardinality({d \in Ids : pc[d] \in Holding}) = semCap
    /\ \E d \in Ids : pc[d] = "acquire"

\* C7: with ctx cancelled before or during the scan of a directory root, Scan
\* returns; it returns the root and no error, and every directory node of the
\* tree has the sum of its children's sizes as its size.
C7_CancellationSafety ==
    /\ [](ctxErr => <>Returned)
    /\ []((ReturnedDir /\ ctxErr) => (~result.err /\ Conserved))

\* a scan cancelled half-way: bytes were counted and part of the tree is missing
C7_Witness ==
    /\ ReturnedDir /\ ctxErr /\ NoFault
    /\ size[Root] > 0
    /\ nodes # DOMAIN fsys
    /\ \E d \in nodes \ {Root} : pc[d] = "done"

\* C8: a goroutine about to send progress can always take that step; a send
\* that finds the channel full is dropped; and, the channel never drained,
\* Scan still returns, with every node's size what the file system says.
C8_NonBlockingProgress ==
    /\ [](\A d \in Ids : pc[d] = "send" => ENABLED EmitProgress(d))
    /\ [][\A d \in Ids :
            (/\ pc[d] = "send" /\ pc'[d] # "send"
             /\ ~chNil /\ ~ctxErr /\ Len(progressCh) >= chCap)
            => (progressCh' = progressCh /\ dropped' = dropped + 1)]_vars
    /\ []((ReturnedDir /\ ~ctxErr /\ NoFault)
            => \A n \in nodes : size[n] = TrueSize(n))
    /\ <>Returned

\* a returned scan whose consumer received nothing: the channel is full and
\* a send was dropped, and the root has all its bytes
C8_Witness ==
    /\ ReturnedDir /\ ~ctxErr /\ NoFault
    /\ received = 0 /\ Len(progressCh) = chCap /\ dropped > 0
    /\ size[Root] = TrueSize(Root)

\* the file nodes of the tree
NumFiles == Cardinality({n \in nodes : fsys[n].kind = "file"})

\* Scan returned a tree and the progress channel, which has room for one
\* value per file, has been drained
DrainedAfterScan ==
    /\ Returned /\ result.node = Root
    /\ ~chNil /\ chCap >= NumFiles
    /\ progressCh = <<>>

\* C9 as claimed: with a channel of capacity at least the number of files,
\* drained after Scan returns, the values received add up to the root's size.
C9_AsClaimed == DrainedAfterScan => received = size[Root]

\* C9: with a channel of capacity at least the number of files, drained after
\* Scan returns, and ctx not cancelled, the values received add up to the
\* root's size.
C9_ProgressConservation ==
    (DrainedAfterScan /\ ~ctxErr) => received = size[Root]

\* a drained, uncancelled scan that emitted twice
C9_Witness ==
    /\ DrainedAfterScan /\ ~ctxErr /\ IsDir[Root]
    /\ received > 1 /\ received = size[Root]

\* C10: the node of a symlink entry is a child of the directory that holds
\* the entry, is not a directory, has no children, size 0 and no goroutine;
\* no directory ever counts more bytes than its files have; and every
\* symlink entry of a fully read tree has its node.
C10_SymlinkPolicy ==
    /\ \A n \in nodes \ {Root} :
          fsys[n].kind = "symlink" =>
              /\ ~IsDir[n] /\ Children[n] = <<>> /\ size[n] = 0
              /\ pc[n] = "idle"
              /\ n \in Range(Children[Parent[n]])
    /\ \A d \in nodes : IsDir[d] => size[d] <= TrueSize(d)
    /\ (ReturnedDir /\ ~ctxErr /\ NoFault) =>
          \A i \in DOMAIN fsys : fsys[i].kind = "symlink" => i \in nodes

\* a returned scan with a symlink in a subdirectory next to a counted file
C10_Witness ==
    /\ ReturnedDir
    /\ \E n \in nodes \ {Root} :
          fsys[n].kind = "symlink" /\ Parent[n] # Root /\ size[Parent[n]] > 0

\* entry i of the file system is d or lies below d
RECURSIVE Under(_, _)
Under(i, d) == i = d \/ (i # Root /\ Under(fsys[i].parent, d))

\* exactly one system call has failed
OneFault == faults = MaxFaults - 1

\* the subdirectory nodes that carry an error and whose directory yielded no
\* entry: os.Open failed, or the first f.ReadDir, or f.Close of an empty one
Unread ==
    {d \in nodes \ {Root} :
        Err[d] /\ readPos[d] = 0 /\ pc[d] \in {"wait"} \cup AfterWait}

\* C11: the step in which os.Open of a subdirectory fails stores the error on
\* that subdirectory's node and leaves Scan running; the node stays among its
\* parent's children with no children and size 0; and when Scan returns (ctx
\* not cancelled, no other failure) it returns the root and no error, every
\* entry outside that subdirectory has its node, every other directory's
\* goroutine has ended, and the siblings have their full sizes.
C11_OpenFailureIsolated ==
    /\ \A d \in Ids \ {Root} :
          pc[d] = "open" =>
              ~ENABLED (/\ Next
                        /\ pc'[d] = "wait"
                        /\ ~(/\ Err'[d] /\ d \in Unread'
                             /\ \A n \in Ids \ {d} : Err'[n] = Err[n]
                             /\ scanPc' = "waiting" /\ ~result'.err))
    /\ \A d \in Unread :
          /\ d \in Range(Children[Parent[d]])
          /\ Children[d] = <<>> /\ size[d] = 0
    /\ (Returned /\ ~ctxErr /\ OneFault) =>
          \A d \in Unread :
              /\ result = [node |-> Root, err |-> FALSE]
              /\ \A s \in DOMAIN fsys \ {d} :
                    ~Under(s, d) =>
                        /\ s \in nodes
                        /\ fsys[s].kind = "dir" => pc[s] = "done"
                        /\ fsys[s].parent = fsys[d].parent =>
                              size[s] = TrueSize(s)

\* a returned scan in which a non-empty subdirectory could not be read and a
\* sibling file was counted
C11_Witness ==
    /\ Returned /\ ~ctxErr
    /\ \E d \in Unread :
          /\ \E i \in DOMAIN fsys : i # d /\ Under(i, d)
          /\ \E s \in nodes \ {d} : Parent[s] = Parent[d] /\ size[s] > 0

\* C12: the step in which entry.Info() fails for a file entry stores the
\* failure on that entry's node, which stays among its parent's children with
\* size 0.
C12_InfoFailureStored ==
    [][\A d \in Ids :
          (pc[d] = "chunk" /\ idx'[d] = idx[d] + 1 /\ faults' = faults - 1) =>
              LET e == entries[d][idx[d] + 1]
              IN  /\ Err'[e]
                  /\ e \in Range(Children'[d])
                  /\ size'[e] = 0]_vars

\* Scan returned an error
Failed == Returned /\ result.err

\* C13: when Lstat of the root fails, Scan returns an error and no node; no
\* node was made, no goroutine was started, no semaphore slot or WaitGroup
\* count was taken, and nothing was sent or dropped on the progress channel.
C13_RootStatFailure ==
    /\ result.err => Returned
    /\ (scanPc = "returned" /\ faults < MaxFaults /\ nodes = {}) => result.err
    /\ Failed =>
          /\ result.node = NoNode
          /\ nodes = {}
          /\ \A d \in Ids : pc[d] = "idle" /\ Children[d] = <<>>
          /\ sem = 0 /\ globalWg = 0
          /\ progressCh = <<>> /\ received = 0 /\ dropped = 0

\* a failed scan of a non-empty file, with a progress channel to send on
C13_Witness ==
    /\ Failed /\ ~chNil /\ ~ctxErr
    /\ fsys[Root].kind = "file" /\ fsys[Root].size > 0

\* Scan returned the node of a root that is a file or a symlink
ReturnedNonDir ==
    Returned /\ result.node = Root /\ fsys[Root].kind # "dir"

\* the single-node tree of a non-directory root
SingleNode ==
    /\ ~result.err
    /\ nodes = {Root}
    /\ ~IsDir[Root] /\ Children[Root] = <<>> /\ ~Err[Root]
    /\ size[Root] = fsys[Root].size
    /\ \A d \in Ids : pc[d] = "idle"

\* the values sent on the progress channel so far: how many (at most one is
\* ever sent for a non-directory root), and their sum
Emissions == Len(progressCh) + (IF received > 0 THEN 1 ELSE 0)
Emitted == received + SumSeq(progressCh)

\* C14 as claimed: for a non-directory root and a progress channel, Scan
\* returns the single-node tree with the Lstat size and has sent exactly one
\* progress value, that size.
C14_AsClaimed ==
    (ReturnedNonDir /\ ~chNil) =>
        /\ SingleNode
        /\ Emissions = 1 /\ Emitted = size[Root]

\* C14: for a non-directory root Scan returns the single-node tree with the
\* Lstat size; with a progress channel, ctx not cancelled and a positive
\* size it has sent exactly one progress value, that size, and otherwise it
\* has sent none; no send is dropped.
C14_SingleFile ==
    ReturnedNonDir =>
        /\ SingleNode
        /\ dropped = 0
        /\ IF ~chNil /\ ~ctxErr /\ size[Root] > 0
           THEN Emissions = 1 /\ Emitted = size[Root]
           ELSE Emissions = 0

\* a scanned file root whose size has been sent and received
C14_Witness ==
    /\ ReturnedNonDir /\ ~ctxErr
    /\ fsys[Root].kind = "file" /\ size[Root] > 0
    /\ received = size[Root] /\ progressCh = <<>>

Max(a, b) == IF a > b THEN a ELSE b

\* the step in which Update handles startScan's scanDoneMsg
ScanDoneStep == scanMsg = "inFlight" /\ scanMsg' = "delivered"

\* C15: the step that handles a scanDoneMsg without error takes the Model
\* from Scanning to Browsing, sets root to the delivered node, cursor to 0 and
\* the stack to empty, and marks the root sorted for (sortGen, sort), which it
\* leaves as they were.
C15_ScanDoneBrowsing ==
    (scanMsg = "inFlight" /\ ~result.err) =>
        ~ENABLED (/\ NavNext
                  /\ ScanDoneStep
                  /\ ~(/\ state = "Scanning" /\ state' = "Browsing"
                       /\ root' = result.node
                       /\ cursor' = 0
                       /\ stack' = <<>>
                       /\ nodeSortGen'[root'] = sortGen' /\ SortedMode'[root'] = sort'
                       /\ UNCHANGED <<sort, sortGen, scanErr>>))

\* the browser right after the scan of a directory of several entries
C15_Witness ==
    /\ scanMsg = "delivered" /\ state = "Browsing" /\ ~quit
    /\ root = Root /\ cursor = 0 /\ stack = <<>>
    /\ IsSorted(Root) /\ Len(Children[Root]) > 1

\* C16: the step that handles a scanDoneMsg with an error puts the Model in
\* Error with the error stored; and no step taken in Error changes the state,
\* the cursor, the stack, the sort mode and generation, the root or any node.
C16_ScanError ==
    /\ (scanMsg = "inFlight" /\ result.err) =>
          ~ENABLED (/\ NavNext
                    /\ ScanDoneStep
                    /\ ~(state' = "Error" /\ scanErr' /\ root' = NoNode))
    /\ state = "Error" =>
          ~ENABLED (/\ NavNext
                    /\ ~UNCHANGED <<state, scanErr, cursor, stack, sort, sortGen,
                                    root, treeVars, sortVars>>)

\* the Model in Error after a failed scan
C16_Witness ==
    /\ result.err /\ scanMsg = "delivered"
    /\ state = "Error" /\ scanErr /\ ~quit

\* C17: in Scanning, Browsing and Error alike, "q" and "ctrl+c" each make
\* Update return tea.Quit.
C17_QuitAlways ==
    (~quit /\ state \in {"Scanning", "Browsing", "Error"}) =>
        \A k \in QuitKeys : ENABLED (handleKey(k) /\ quit')

\* C18: once a scan has been delivered, 0 <= cursor < max(1, number of
\* children of the current directory), in every state the keys lead to.
C18_CursorClamp ==
    (scanMsg = "delivered" /\ ~result.err) =>
        /\ 0 <= cursor
        /\ cursor < Max(1, Len(Children[currentDir]))

\* after a delete the cursor is on the last of the children left, which is
\* not the first
C18_Witness ==
    /\ state = "Browsing" /\ hookErr = "nil"
    /\ \E x \in trashed : Parent[x] = currentDir
    /\ cursor > 0 /\ cursor = Len(Children[currentDir]) - 1

\* C19: the step in which a confirmed delete's trashItem succeeds on entry x
\* of size S of the current directory removes x, and nothing else, from that
\* directory's children, takes exactly S off the root's size and off the size
\* of every directory on the stack, leaves every other size, and ends in
\* Browsing.
C19_TrashDelta ==
    ~ENABLED (/\ NavNext
              /\ trashed' # trashed
              /\ ~(LET x == confirmPath
                       S == size[x]
                       d == currentDir
                   IN  /\ state = "ConfirmDelete" /\ state' = "Browsing"
                       /\ trashed' = trashed \cup {x}
                       /\ x \in Range(Children[d])
                       /\ Range(Children'[d]) = Range(Children[d]) \ {x}
                       /\ Len(Children'[d]) = Len(Children[d]) - 1
                       /\ \A n \in Ids \ {d} : Children'[n] = Children[n]
                       /\ size'[root] = size[root] - S
                       /\ \A n \in Range(stack) : size'[n] = size[n] - S
                       /\ \A n \in Ids \ (Range(stack) \cup {root}) :
                             size'[n] = size[n]))

\* a file of positive size has just been trashed from inside a subdirectory
C19_Witness ==
    /\ state = "Browsing" /\ hookErr = "nil" /\ stack # <<>>
    /\ \E x \in trashed :
          /\ size[x] > 0
          /\ Parent[x] = currentDir
          /\ x \notin Range(Children[currentDir])

\* C20: the step in which a confirmed delete's trashItem returns an error
\* changes no node's children and no node's size, and nothing is in the
\* Trash that was not.
C20_TrashFailure ==
    state = "ConfirmDelete" =>
        ~ENABLED (/\ NavNext
                  /\ hookErr' = "error"
                  /\ ~UNCHANGED <<Children, size, trashed>>)

\* trashItem has just failed on an entry in a subdirectory that still holds
\* a node of positive size
C20_Witness ==
    /\ state = "Browsing" /\ hookErr = "error" /\ stack # <<>>
    /\ \E n \in Range(Children[currentDir]) : size[n] > 0

\* the step is Update handling a key message
KeyStep == \E k \in Keys : handleKey(k)

\* C21: whenever a hook called by Update (open, reveal or trash) returns an
\* error, the Model is in Error after that Update, with the error stored.
C21_HookFailureError ==
    [][(KeyStep /\ hookCall' # NoCall /\ hookErr' = "error") =>
          (state' = "Error" /\ scanErr')]_vars

\* C22: a step that handles esc, n or q in ConfirmDelete ends in Browsing
\* with the captured path cleared; it calls no hook, nothing is moved to the
\* Trash, and the tree (nodes, sizes, children and their order, sort marks),
\* the root, the stack, the cursor and the sort mode and generation are as
\* before.
C22_CancelDelete ==
    \A k \in CancelKeys :
        state = "ConfirmDelete" =>
            ~ENABLED (/\ handleKey(k)
                      /\ ~(/\ state' = "Browsing"
                           /\ confirmPath' = NoNode
                           /\ hookCall' = NoCall /\ hookErr' = "none"
                           /\ UNCHANGED <<trashed, treeVars, sortVars, root, stack,
                                          cursor, sort, sortGen, quit>>))

\* a delete awaits its answer in a subdirectory, in name order, the cursor
\* below the first row, and esc can be handled
C22_Witness ==
    /\ state = "ConfirmDelete" /\ confirmPath # NoNode /\ ~quit
    /\ stack # <<>> /\ cursor > 0 /\ sort = "SortByName"
    /\ ENABLED cancelDelete("esc")

\* C23: a step that calls the trash hook is a step that handles d, y or
\* enter in ConfirmDelete, and it passes the captured path; ConfirmDelete is
\* entered only from Browsing by the key d with an entry selected, whose path
\* is the one captured; and the captured path does not change while the
\* Model stays in ConfirmDelete.  Nothing moves to the Trash in any other step.
C23_TrashOnlyOnConfirm ==
    ~ENABLED (/\ NavNext
              /\ ~(/\ (hookCall' # hookCall /\ hookCall'.hook = "trash") =>
                         /\ state = "ConfirmDelete"
                         /\ \E k \in ConfirmKeys : handleKey(k)
                         /\ confirmPath # NoNode
                         /\ hookCall'.path = confirmPath
                   /\ (state # "ConfirmDelete" /\ state' = "ConfirmDelete") =>
                         /\ state = "Browsing"
                         /\ handleKey("d")
                         /\ selected(Children'[currentDir]) # NoNode
                         /\ confirmPath' = selected(Children'[currentDir])
                   /\ (state = "ConfirmDelete" /\ state' = "ConfirmDelete") =>
                         confirmPath' = confirmPath
                   /\ trashed' # trashed =>
                         (hookCall' # hookCall /\ hookCall'.hook = "trash"
                            /\ trashed' = trashed \cup {hookCall'.path})))

\* the trash hook has just been called, and has succeeded, on an entry of a
\* subdirectory that was not the first row
C23_Witness ==
    /\ state = "Browsing" /\ stack # <<>>
    /\ hookCall.hook = "trash" /\ hookErr = "nil"
    /\ hookCall.path \in trashed
    /\ Parent[hookCall.path] = currentDir
    /\ \E n \in Range(Children[currentDir]) : Name(n) < Name(hookCall.path)

\* the sequence ch is in the order of the policy mode
OrderedBy(ch, mode) ==
    \A i, j \in 1..Len(ch) :
        i < j => IF mode = "SortBySize" THEN size[ch[i]] >= size[ch[j]]
                 ELSE Name(ch[i]) <= Name(ch[j])

\* whatever visibleChildren() returns now is in the order of the Model's mode
VisibleOrdered ==
    \A ch \in visibleChildren(currentDir, Children[currentDir]) :
        OrderedBy(ch, sort)

\* the step is the sort toggle, the key s in Browsing
ToggleStep == state = "Browsing" /\ handleKey("s")

\* C24: a call of visibleChildren() leaves the current directory marked
\* sorted, and the next call returns the sequence it left; a marked
\* directory keeps its marks and the order of its children in every step
\* that does not toggle the sort mode (a delete takes one child out of the
\* order); and after the step that handles s the mode is the other one and
\* visibleChildren() returns the children in the order of that mode.
C24_SortIdempotence ==
    ~ENABLED (/\ NavNext
              /\ ~(/\ View =>
                         /\ IsSorted(currentDir)'
                         /\ visibleChildren(currentDir, Children[currentDir])'
                               = {Children'[currentDir]}
                   /\ \A d \in Ids :
                         (IsSorted(d) /\ UNCHANGED <<sort, sortGen>>) =>
                             /\ IsSorted(d)'
                             /\ Range(Children'[d]) = Range(Children[d]) =>
                                    Children'[d] = Children[d]
                             /\ \A i, j \in 1..Len(Children'[d]) :
                                    i < j => \E a, b \in 1..Len(Children[d]) :
                                                /\ a < b
                                                /\ Children[d][a] = Children'[d][i]
                                                /\ Children[d][b] = Children'[d][j]
                   /\ ToggleStep =>
                         /\ sort' # sort /\ sort' \in SortModes
                         /\ VisibleOrdered'))

\* the sort was toggled once, to name order, in a directory whose children
\* were not in name order, and they have been shown in name order since
C24_Witness ==
    /\ state = "Browsing" /\ sortGen = 2 /\ sort = "SortByName"
    /\ IsSorted(currentDir)
    /\ Len(Children[currentDir]) > 1
    /\ OrderedBy(Children[currentDir], "SortByName")
    /\ ~OrderedBy(Children[currentDir], "SortBySize")

\* C25: the step that handles s flips the Model's sort mode, adds one to its
\* generation and changes no node: not the order of any children, no sortGen
\* and no SortedMode.  A step that does change the order of a directory's
\* children or its marks is a later one in which that directory is the
\* current directory (before the step, or after it when the step goes up),
\* and it leaves it marked for the Model's generation and mode.
C25_ToggleTouchesNoNode ==
    ~ENABLED (/\ NavNext
              /\ ~(/\ ToggleStep =>
                         /\ sort' = (IF sort = "SortBySize" THEN "SortByName"
                                     ELSE "SortBySize")
                         /\ sortGen' = sortGen + 1
                         /\ UNCHANGED <<treeVars, sortVars>>
                   /\ \A d \in Ids :
                         (Children'[d] # Children[d]
                            \/ nodeSortGen'[d] # nodeSortGen[d]
                            \/ SortedMode'[d] # SortedMode[d]) =>
                             /\ ~ToggleStep
                             /\ d \in {currentDir, currentDir'}
                             /\ IsSorted(d)'))

\* s has just been handled in a subdirectory whose children are still in
\* size order and not in name order
C25_Witness ==
    /\ state = "Browsing" /\ stack # <<>> /\ cursor = 0
    /\ sortGen = 2 /\ sort = "SortByName"
    /\ nodeSortGen[currentDir] = 1 /\ SortedMode[currentDir] = "SortBySize"
    /\ Len(Children[currentDir]) > 1
    /\ ~OrderedBy(Children[currentDir], "SortByName")

\* C26: once the scan has been delivered, every directory marked sorted for
\* the Model's generation and mode has its children in the order of that
\* mode, so that visibleChildren() returns them in that order.
C26_SortTruthful ==
    (scanMsg = "delivered" /\ ~result.err) =>
        /\ \A d \in nodes :
              (IsDir[d] /\ IsSorted(d)) => OrderedBy(Children[d], sort)
        /\ state \in {"Browsing", "ConfirmDelete"} => VisibleOrdered

\* C27: the scan delivers a tree in which every directory's size is the sum
\* of its children's sizes, and after any navigation and any trash, at any
\* depth, every directory node still has that size.
C27_SizeUnderTrash ==
    (scanMsg = "delivered" /\ ~result.err) =>
        \A d \in nodes : IsDir[d] => size[d] = ChildSizes(d)

\* a file of positive size has just been trashed two directories below the
\* root
C27_Witness ==
    /\ state = "Browsing" /\ Len(stack) = 2
    /\ hookCall.hook = "trash" /\ hookErr = "nil"
    /\ hookCall.path \in trashed
    /\ Parent[hookCall.path] = currentDir
    /\ size[hookCall.path] > 0

\* C28: a step that handles right, enter or l in Browsing appends the
\* selected node to the stack and sets the cursor to 0 when that node is a
\* directory, and leaves the stack and the cursor as they were when it is
\* not a directory or when nothing is selected; the Model stays in Browsing
\* and no node, size or set of children changes.
C28_Descend ==
    \A k \in RightKeys :
        state = "Browsing" =>
            ~ENABLED (/\ handleKey(k)
                      /\ ~(LET sel == selected(Children'[currentDir])
                           IN  /\ IF sel # NoNode /\ IsDir[sel]
                                  THEN stack' = Append(stack, sel) /\ cursor' = 0
                                  ELSE UNCHANGED <<stack, cursor>>
                               /\ sel # NoNode => sel \in Range(Children[currentDir])
                               /\ UNCHANGED <<state, root, sort, sortGen, nodes,
                                              IsDir, size, Parent, trashed>>))

\* two directories below the root, the cursor on an entry that is not a
\* directory
C28_Witness ==
    /\ state = "Browsing" /\ Len(stack) = 2
    /\ stack[1] \in Range(Children[root])
    /\ stack[2] \in Range(Children[stack[1]])
    /\ IsSorted(currentDir)
    /\ selected(Children[currentDir]) # NoNode
    /\ ~IsDir[selected(Children[currentDir])]

C30_ScrollWindow ==
    scrollRet # <<>> =>
        LET c      == scrollArgs[1]
            total  == scrollArgs[2]
            height == scrollArgs[3]
            start  == scrollRet[1]
            end    == scrollRet[2]
        IN  (0 <= c /\ c < total /\ height >= 1) =>
                /\ start <= c /\ c < end
                /\ end - start = Min(total, height)
                /\ 0 <= start
                /\ end <= total

\* a list longer than the window with the cursor near its end: the window
\* centred on the cursor would pass the end of the list and is moved back
C30_Witness ==
    /\ scrollArgs # <<>> /\ scrollRet # <<>>
    /\ 0 <= scrollArgs[1] /\ scrollArgs[1] < scrollArgs[2]
    /\ scrollArgs[3] >= 2 /\ scrollArgs[2] > scrollArgs[3]
    /\ scrollArgs[1] - (scrollArgs[3] \div 2) + scrollArgs[3] > scrollArgs[2]
    /\ scrollRet[2] = scrollArgs[2]
    /\ scrollRet[1] = scrollArgs[2] - scrollArgs[3]

\* C31: for n >= 0, truncate(s, n) has at most n runes; it is s when s has at
\* most n runes; when s has more and n >= 2 its runes are the first n-1 runes
\* of s and then the one rune U+2026.
C31_Truncation ==
    (truncRet # <<>> /\ truncArgs[2] >= 0) =>
        LET s == truncArgs[1]
            n == truncArgs[2]
            r == truncRet[1]
        IN  /\ Len(Decode(r)) <= n
            /\ Len(Decode(s)) <= n => r = s
            /\ (Len(Decode(s)) > n /\ n >= 2) =>
                  Decode(r) = SubSeq(Decode(s), 1, n - 1) \o <<8230>>

\* a string of three runes, the first of two bytes and the second an invalid
\* byte, was cut to two runes
C31_Witness ==
    /\ truncRet # <<>>
    /\ truncArgs[2] = 2
    /\ Len(Decode(truncArgs[1])) = 3
    /\ Decode(truncArgs[1])[1] = 945
    /\ Decode(truncArgs[1])[2] = RuneError
    /\ truncRet[1] # truncArgs[1]

C33_Capacity ==
    numWorkers # 0 => \E K \in 2..32 : numWorkers = Max(4, numCPU * K)

\* the sum of the sizes that the file nodes of d's batch have got
BatchFiles(d) ==
    SumSeq([i \in 1..Len(entries[d]) |->
               IF fsys[entries[d][i]].kind = "file" THEN size[entries[d][i]]
               ELSE 0])

\* C34: with the chunk goroutines of a batch interleaved in any way, a node
\* that is not a directory gets a size only from the chunk goroutine that
\* handles its entry, and it is the entry's size; while a directory's batch
\* is processed the batch changes the directory's size in one step only,
\* the add after wg.Wait, by the sum of the sizes the batch's files have
\* got (a child directory's add is the only other change); every file of the
\* batch whose Info did not fail has its size by then; and a value enters the
\* progress channel for a directory only in the one send after that add, and
\* it is that sum.
C34_BatchAggregation ==
    [][/\ \A e \in nodes \ {Root} :
            (~IsDir[e] /\ size'[e] # size[e]) =>
                /\ fsys[e].kind = "file"
                /\ size'[e] = fsys[e].size
                /\ \E d \in Ids, k \in 1..numChunks :
                      /\ ChunkStep(d, k)
                      /\ entries[d][chunks[d][k].j + 1] = e
       /\ \A d \in nodes :
            (IsDir[d] /\ size'[d] # size[d]) =>
                \/ BatchDone(d)
                \/ \E c \in Ids :
                      /\ AddToParent(c)
                      /\ Parent[c] = d
                      /\ size'[d] = size[d] + size[c]
       /\ \A d \in Ids :
            BatchDone(d) =>
                /\ size'[d] = size[d] + BatchFiles(d)
                /\ totalSize[d] = BatchFiles(d)
                /\ faults = MaxFaults =>
                      \A i \in 1..Len(entries[d]) :
                          fsys[entries[d][i]].kind = "file" =>
                              size[entries[d][i]] = fsys[entries[d][i]].size
       /\ (Len(progressCh') > Len(progressCh) \/ dropped' # dropped) =>
            \/ scanPc = "init"
            \/ \E d \in Ids :
                  /\ EmitProgress(d)
                  /\ totalSize[d] = BatchFiles(d)
                  /\ progressCh' \in {progressCh, Append(progressCh, BatchFiles(d))}
      ]_vars

\* the two chunk goroutines of a batch of two files have each added a
\* positive size, and the directory's add for the batch is done
C34_Witness ==
    \E d \in Ids :
        /\ pc[d] = "send"
        /\ Len(entries[d]) >= minFanOut
        /\ totalSize[d] = 2 * MaxFileSize
        /\ size[d] >= totalSize[d]

\* ctx is cancelled and Scan has not been called yet, on a directory root
PreCancelled == ctxErr /\ scanPc = "init" /\ fsys[Root].kind = "dir"

\* nothing was opened, no slot is taken, no child node exists, nothing was
\* given to the progress sink, and what Scan returned after a successful Lstat
\* is the bare root and a nil error
Untouched ==
    /\ sem = 0
    /\ \A d \in Ids : pc[d] \in {"idle", "start", "wait"} \cup AfterWait
    /\ nodes \subseteq {Root}
    /\ \A d \in Ids : Children[d] = <<>> /\ size[d] = 0 /\ ~Err[d] /\ readPos[d] = 0
    /\ progressCh = <<>> /\ received = 0 /\ dropped = 0
    /\ (Returned /\ faults = MaxFaults) => result = [node |-> Root, err |-> FALSE]

\* C35: from a state in which ctx is already cancelled when Scan is called on
\* a directory root, no goroutine ever acquires a slot or opens a directory,
\* no child node is made, nothing is emitted, and Scan returns the root with
\* no children, size 0, no Err, and a nil error: that state is untouched, and
\* with ctx cancelled no step leads from an untouched state to one that is
\* not.
C35_PreCancelled ==
    /\ PreCancelled => Untouched
    /\ (ctxErr /\ fsys[Root].kind = "dir" /\ Untouched) =>
          ~ENABLED (Next /\ ~Untouched')

\* Scan has returned the bare root of a directory that has three entries,
\* with ctx cancelled
C35_Witness ==
    /\ Returned /\ ctxErr
    /\ Cardinality(DOMAIN fsys) = MaxEntries + 1
    /\ result = [node |-> Root, err |-> FALSE]
    /\ nodes = {Root} /\ Children[Root] = <<>> /\ size[Root] = 0
    /\ faults = MaxFaults

\* C36: a scanDir goroutine takes a slot only in its one acquire; it reaches
\* the wait for its children either from its start, on a cancelled ctx and
\* having taken no slot, or by the step that gives its slot back (after a
\* failed open, or after the close that ends the reading: end of directory,
\* read error, cancellation); and it stays in that wait, taking no slot,
\* until its children are done.
C36_NoSlotWhileWaiting ==
    ~ENABLED (/\ Next
              /\ ~(\A d \in Ids :
                      /\ (pc'[d] \in Holding /\ pc[d] \notin Holding) =>
                            pc[d] = "acquire" /\ sem' = sem + 1
                      /\ (pc'[d] = "wait" /\ pc[d] # "wait") =>
                            \/ pc[d] = "start" /\ ctxErr /\ sem' = sem
                            \/ pc[d] \in {"open", "close"} /\ sem' = sem - 1
                      /\ pc[d] = "wait" =>
                            /\ pc'[d] \in {"wait", "addParent"}
                            /\ pc'[d] = "addParent" => localWg[d] = 0 /\ sem' = sem
                      /\ pc[d] \in AfterWait => pc'[d] \in AfterWait))

\* the root's goroutine waits for a child while a child holds the only slot
C36_Witness ==
    /\ semCap = 1 /\ sem = 1
    /\ pc[Root] = "wait"
    /\ localWg[Root] > 0
    /\ \E c \in Ids \ {Root} : pc[c] \in Holding

\* C37: the slots taken are those of the goroutines between their acquire
\* and their release, none is taken once Scan has returned; a slot is freed
\* only by a goroutine that holds one, one slot per step, as that goroutine
\* goes on to its wait, after which it never holds a slot again.
C37_SlotsBalanced ==
    /\ sem >= 0
    /\ sem = Cardinality({d \in Ids : pc[d] \in Holding})
    /\ Returned => (sem = 0 /\ \A d \in Ids : pc[d] \in {"idle", "done"})
    /\ ~ENABLED (/\ Next
                 /\ ~(/\ sem' < sem =>
                            /\ sem' = sem - 1
                            /\ \E d \in Ids :
                                  /\ pc[d] \in Holding
                                  /\ pc'[d] = "wait"
                                  /\ \A x \in Ids \ {d} : pc'[x] = pc[x]
                      /\ \A d \in Ids :
                            pc[d] \in {"wait"} \cup AfterWait =>
                                pc'[d] \notin Holding \cup {"acquire"}))

\* Scan has returned after goroutines gave their slots back on each path: a
\* failed system call, a cancelled ctx, an end of directory
C37_Witness ==
    /\ Returned
    /\ sem = 0
    /\ faults < MaxFaults /\ ctxErr
    /\ \E d \in nodes : Err[d]
    /\ \E d \in nodes \ {Root} : IsDir[d] /\ readPos[d] > 0

\* C38: the stack is empty while there is no root; every element of the stack
\* is a directory node that was not trashed and is not the root, the first a
\* child of the root and each next one a child of the one before it; and the
\* node that the answer to a ConfirmDelete moves to the Trash is not on the
\* stack, before or after.
C38_StackIsPath ==
    /\ stack # <<>> => root = Root
    /\ \A i \in 1..Len(stack) :
          /\ stack[i] \in nodes
          /\ IsDir[stack[i]]
          /\ stack[i] \notin trashed
          /\ stack[i] # root
          /\ stack[i] \in Range(Children[IF i = 1 THEN root ELSE stack[i - 1]])
    /\ state = "ConfirmDelete" =>
          ~ENABLED (/\ NavNext
                    /\ \E n \in trashed' \ trashed :
                          n \in Range(stack) \/ n \in Range(stack'))

\* two directories deep, with an entry of the inner directory trashed
C38_Witness ==
    /\ state = "Browsing"
    /\ Len(stack) = 2
    /\ \E x \in trashed : Parent[x] = stack[2]

\* C39: the Model's sortGen is at least 1 and no node's generation is ahead
\* of it, so a node that still has the scanner's generation 0 is not sorted
\* for the Model; sortGen changes only in a sort toggle, and a step that
\* changes the mode adds one to it; and
\* the step that first gives a directory a generation leaves its children in
\* the order of the active mode and marked for the Model's generation and
\* mode, as does every View of a directory of generation 0.
C39_NeverSortedNotSorted ==
    /\ sortGen >= 1
    /\ \A d \in Ids :
          /\ nodeSortGen[d] <= sortGen
          /\ nodeSortGen[d] = 0 => ~IsSorted(d)
    /\ ~ENABLED (/\ NavNext
                 /\ ~(/\ sortGen' # sortGen => (ToggleStep /\ sortGen' = sortGen + 1)
                      /\ sort' # sort => sortGen' = sortGen + 1
                      /\ \A d \in nodes :
                            (nodeSortGen[d] = 0 /\ nodeSortGen'[d] # 0) =>
                                /\ OrderedBy(Children'[d], sort')
                                /\ IsSorted(d)'
                      /\ (/\ currentDir # NoNode
                          /\ nodeSortGen[currentDir] = 0
                          /\ View) =>
                            (/\ OrderedBy(Children'[currentDir], sort)
                             /\ IsSorted(currentDir)')))

\* after two toggles, back in size mode, a directory below the root holds the
\* Model's generation and its children are no longer in ReadDir's order
C39_Witness ==
    /\ state = "Browsing"
    /\ sortGen = MaxSortGen /\ sort = "SortBySize"
    /\ Len(stack) = 1
    /\ nodeSortGen[stack[1]] = sortGen
    /\ trashed = {}
    /\ Children[stack[1]] # DirEntries(stack[1])

\* the step sends on the progress channel: it buffers a value or takes the
\* default branch
SendStep == Len(progressCh') > Len(progressCh) \/ dropped' # dropped

\* C40: the progress channel is closed only by startScan's close, Scan having
\* returned and every scanDir goroutine having finished, and it stays
\* closed; no step sends on it once it is closed; a value leaves it only by
\* being added to the counter; and startScan's message exists only once the
\* channel is closed and empty and the drain goroutine has finished, all that
\* was buffered being in the counter: the whole size of the tree when nothing
\* was dropped and no system call failed.
C40_SinkLifecycle ==
    /\ [](/\ chClosed =>
                (Returned /\ \A d \in Ids : pc[d] \in {"idle", "done"})
          /\ drainDone => (chClosed /\ progressCh = <<>>)
          /\ scanMsg # "none" =>
                /\ chClosed /\ drainDone /\ progressCh = <<>>
                /\ (dropped = 0 /\ faults = MaxFaults) => received = size[Root])
    /\ [][/\ chClosed' # chClosed => (CloseSink /\ Returned)
          /\ chClosed => ~SendStep
          /\ progressCh' # progressCh =>
                \/ SendStep /\ ~chClosed
                \/ /\ progressCh' = Tail(progressCh)
                   /\ received' = received + Head(progressCh)
          /\ received' # received => progressCh' = Tail(progressCh)
         ]_vars

\* startScan's message is in flight after a scan that buffered a value and
\* dropped one
C40_Witness ==
    /\ scanMsg = "inFlight"
    /\ ~result.err
    /\ received > 0
    /\ dropped > 0
====
